---- MODULE Spec2Model ----
(***************************************************************************)
(* State-machine model of CalendarEventViewModel                           *)
(* (src/src/calendar/EventPreviewView.js, second half of the file): the    *)
(* editable state of one calendar event, its mutators, and the asynchronous *)
(* saveAndSend / deleteEvent chains.                                        *)
(***************************************************************************)
EXTENDS Integers, Sequences, FiniteSets, TLC

\* ---------------------------------------------------------------- bounds
\* number of user operations (mutators, deleteEvent) on one view-model
MaxOps == 2
\* number of saveAndSend calls on one view-model that find it idle
MaxSaves == 1
\* number of saveAndSend calls on one view-model that find it busy
MaxDropped == 1
\* length of the domain showAddDomainWizard is opened with
MaxDomainLen == 3

\* ------------------------------------------------------------- constants
NULL == "null"
DAY == 1440

OWN == "own"
SHARED_RO == "shared_ro"
SHARED_RW == "shared_rw"
INVITE == "invite"
EventType == {OWN, SHARED_RO, SHARED_RW, INVITE}

NEEDS_ACTION == "needs_action"
ACCEPTED == "accepted"
DECLINED == "declined"
TENTATIVE == "tentative"
ADDED == "added"

INTERNAL == "internal"
EXTERNAL == "external"

\* the mail addresses of the logged-in user (this._mailAddresses)
mailAddresses == <<"me">>
\* other addresses a guest can have; "x" is the one without an account
OtherAddresses == {"a", "b", "x"}
Addresses == {"me"} \cup OtherAddresses
\* pre-shared passwords: none, one of strength < 80, one of strength >= 80
NoPassword == ""
Passwords == {NoPassword, "weak", "strong"}
\* the zone of the view-model, as minutes east of UTC
Zone == 60
\* the time of day new Date() shows when a default time is needed
NowTime == <<9, 0>>

Range(s) == {s[i] : i \in 1..Len(s)}
includes(s, e) == \E i \in 1..Len(s) : s[i] = e
\* Array.prototype.find on the address: index of the first match, 0 if none
findIndex(s, addr) ==
    IF \E i \in 1..Len(s) : s[i].address = addr
    THEN CHOOSE i \in 1..Len(s) : s[i].address = addr /\ \A j \in 1..(i - 1) : s[j].address /= addr
    ELSE 0
findBcc(s, addr) ==
    IF \E i \in 1..Len(s) : s[i].mailAddress = addr
    THEN CHOOSE i \in 1..Len(s) : s[i].mailAddress = addr /\ \A j \in 1..(i - 1) : s[j].mailAddress /= addr
    ELSE 0
removeAt(s, i) == SubSeq(s, 1, i - 1) \o SubSeq(s, i + 1, Len(s))
bccAddresses(s) == {s[i].mailAddress : i \in 1..Len(s)}

\* addMapEntry(map, key, value): a copy of the map with the entry set
addMapEntry(map, key, value) ==
    [k \in (DOMAIN map) \cup {key} |-> IF k = key THEN value ELSE map[k]]
mapDelete(map, key) == [k \in (DOMAIN map) \ {key} |-> map[k]]
EmptyMap == [k \in {} |-> NEEDS_ACTION]

\* type a recipient resolves to
recipientType(addr) == IF addr = "x" THEN EXTERNAL ELSE INTERNAL
\* SendMailModel.getPasswordStrength of a recipient's pre-shared password
getPasswordStrength(pw) == IF pw = "strong" THEN 100 ELSE IF pw = "weak" THEN 30 ELSE 0

\* ------------------------------------------------------------- calendars
\* CalendarInfo: the user's private calendar and two calendars shared with
\* the user, one with write capability and one without
Calendars == << [id |-> "priv", shared |-> FALSE, write |-> TRUE],
                [id |-> "rw", shared |-> TRUE, write |-> TRUE],
                [id |-> "ro", shared |-> TRUE, write |-> FALSE] >>
calendarGet(cals, id) ==
    IF \E i \in 1..Len(cals) : cals[i].id = id
    THEN CHOOSE c \in Range(cals) : c.id = id
    ELSE [id |-> NULL, shared |-> FALSE, write |-> FALSE]
hasCapabilityOnGroup(cal) == cal.write

\* ------------------------------------------------------------ date math
\* local calendar day of an instant, start of a local day, UTC encoding
dayInZone(t) == (t + Zone) \div DAY
getStartOfDayWithZone(t) == dayInZone(t) * DAY - Zone
getStartOfNextDayWithZone(t) == (dayInZone(t) + 1) * DAY - Zone
getAllDayDateUTCFromZone(t) == dayInZone(t) * DAY
getAllDayDateForTimezone(utc) == (utc \div DAY) * DAY - Zone
isAllDayEventByTimes(s, e) == s % DAY = 0 /\ e % DAY = 0
isAllDayEvent(ev) == isAllDayEventByTimes(ev.startTime, ev.endTime)
getEventStart(ev) == IF isAllDayEvent(ev) THEN getAllDayDateForTimezone(ev.startTime) ELSE ev.startTime
getEventEnd(ev) == IF isAllDayEvent(ev) THEN getAllDayDateForTimezone(ev.endTime) ELSE ev.endTime
\* a time string is kept as its parts; parseTime gives NULL (an empty
\* sequence here) when the parts are no time of day
timeStringFromParts(h, m) == <<h, m>>
timeStringInZone(t) == timeStringFromParts(((t + Zone) % DAY) \div 60, ((t + Zone) % DAY) % 60)
parseTime(s) ==
    IF Len(s) = 2 /\ s[1] \in 0..23 /\ s[2] \in 0..59
    THEN <<[hours |-> s[1], minutes |-> s[2]]>>
    ELSE <<>>
\* DateTime.fromJSDate(d, {zone}).set({hour, minute}).toJSDate()
setHourMinute(t, h, m) == getStartOfDayWithZone(t) + h * 60 + m

\* ---------------------------------------------------------------- events
\* CalendarEvent as far as the view-model reads and writes it.  An absent
\* value of an optional field is the empty sequence or NULL.
NoEvent ==
    [exists |-> FALSE, attendees |-> <<>>, organizer |-> NULL, ownerGroup |-> NULL,
     hasId |-> FALSE, sequence |-> 0, invitedConfidentially |-> <<>>,
     startTime |-> 0, endTime |-> 0, alarmInfos |-> <<>>, repeatRule |-> <<>>]
att(addr, st) == [address |-> addr, status |-> st]
\* start of the stored events: 09:00 on day 1 in the zone
T0 == DAY + 9 * 60 - Zone
timedEvent(atts, org, grp, id, conf, alarmInfos) ==
    [exists |-> TRUE, attendees |-> atts, organizer |-> org, ownerGroup |-> grp,
     hasId |-> id, sequence |-> 0, invitedConfidentially |-> conf,
     startTime |-> T0, endTime |-> T0 + 30, alarmInfos |-> alarmInfos, repeatRule |-> <<>>]
allDayEvent(atts, org, grp, id, conf, alarmInfos) ==
    [timedEvent(atts, org, grp, id, conf, alarmInfos) EXCEPT !.startTime = DAY, !.endTime = 2 * DAY]

\* ---------------------------------------------------------- repeat rules
\* EndType and RepeatPeriod
Never == "never"
Count == "count"
UntilDate == "untilDate"
DAILY == "daily"
WEEKLY == "weekly"
MONTHLY == "monthly"
\* a number that may be NaN is a sequence: <<n>> for n, <<>> for NaN; the
\* unset endValue of a rule is the empty sequence too
NaN == <<>>
num(n) == <<n>>
isNaN(v) == v = <<>>
Number(v) == v[1]
\* new Date(): 08:40 on day 1 in the zone
Now == T0 - 20
MonthDays == 30
incrementByRepeatPeriod(date, period, n) ==
    IF period = MONTHLY THEN date + n * MonthDays * DAY ELSE date + n * DAY
\* RepeatData, kept in this.repeat, and the RepeatRule of an event
repeatData(frequency, interval, endType, endValue) ==
    [frequency |-> frequency, interval |-> interval, endType |-> endType, endValue |-> endValue]
createRepeatRuleWithValues(frequency, interval) ==
    [frequency |-> frequency, interval |-> interval, endType |-> Never, endValue |-> <<>>]

\* _applyValuesFromExistingEvent: this.repeat read from the rule of the event
repeatOf(ev) ==
    IF ev.repeatRule = <<>> THEN <<>>
    ELSE LET existingRule == ev.repeatRule[1]
             rawEndDate == Number(existingRule.endValue)
             localDate == IF isAllDayEvent(ev) THEN getAllDayDateForTimezone(rawEndDate) ELSE rawEndDate
             shownDate == incrementByRepeatPeriod(localDate, DAILY, -1)
         IN <<repeatData(existingRule.frequency, existingRule.interval, existingRule.endType,
                         IF existingRule.endType = UntilDate THEN num(shownDate)
                         ELSE IF existingRule.endType = Count THEN num(Number(existingRule.endValue))
                         ELSE num(1))>>

\* a change of countInvalid that accepts a count of zero
countInvalidBelowZero(count) == isNaN(count) \/ Number(count) < 0
\* createRepeatRule: is the number of occurrences no number or below one
countInvalid(count) == isNaN(count) \/ Number(count) < 1

\* a change of repeatEndValue that stores the zoned instant for all-day events too
repeatEndValueZoned(repeatEndDate, isAllDay) == repeatEndDate
\* createRepeatRule: the stored end of an UntilDate rule
repeatEndValue(repeatEndDate, isAllDay) ==
    IF isAllDay THEN getAllDayDateUTCFromZone(repeatEndDate) ELSE repeatEndDate

\* createRepeatRule(newEvent, rep) while this.allDay() is isAllDay: the
\* rule, or the error it throws
createRepeatRuleOf(newEvent, rep, isAllDay) ==
    LET interval == IF rep.interval = 0 THEN 1 ELSE rep.interval
        repeatRule == [createRepeatRuleWithValues(rep.frequency, interval)
                          EXCEPT !.endType = rep.endType]
        repeatEndDate == getStartOfNextDayWithZone(Number(rep.endValue))
    IN IF rep.endType = Count
       THEN IF countInvalid(rep.endValue)
            THEN [error |-> NULL, rule |-> [repeatRule EXCEPT !.endType = Never]]
            ELSE [error |-> NULL, rule |-> [repeatRule EXCEPT !.endValue = num(Number(rep.endValue))]]
       ELSE IF rep.endType = UntilDate
       THEN IF repeatEndDate < getEventStart(newEvent)
            THEN [error |-> "startAfterEnd_label", rule |-> repeatRule]
            ELSE [error |-> NULL,
                  rule |-> [repeatRule EXCEPT !.endValue = num(repeatEndValue(repeatEndDate, isAllDay))]]
       ELSE [error |-> NULL, rule |-> repeatRule]

\* a change of _initEventType that takes an event without a known calendar
\* for one of the user
_initEventTypeUnknownOwn(ev, cals) ==
    IF ~ev.exists THEN OWN
    ELSE LET calendarInfoForEvent == calendarGet(cals, ev.ownerGroup)
         IN IF ev.ownerGroup /= NULL /\ calendarInfoForEvent.id /= NULL
            THEN IF calendarInfoForEvent.shared
                 THEN IF hasCapabilityOnGroup(calendarInfoForEvent) THEN SHARED_RW ELSE SHARED_RO
                 ELSE IF ev.organizer = NULL \/ includes(mailAddresses, ev.organizer)
                      THEN OWN ELSE INVITE
            ELSE IF ev.organizer = NULL \/ includes(mailAddresses, ev.organizer) THEN OWN ELSE INVITE

\* the view-models the model opens: [event, accountType, defaultConfidential]
scenario(ev, acc, conf) == [event |-> ev, accountType |-> acc, defaultConfidential |-> conf]
Scenarios ==
    { scenario(NoEvent, "internal", FALSE),
      scenario(NoEvent, "internal", TRUE),
      scenario(timedEvent(<<att("me", ACCEPTED), att("a", NEEDS_ACTION)>>, "me", "priv", TRUE, <<FALSE>>, <<>>),
               "internal", FALSE),
      scenario([timedEvent(<<att("a", ACCEPTED), att("x", NEEDS_ACTION)>>, "me", "priv", TRUE, <<TRUE>>, <<"5M">>)
                   EXCEPT !.sequence = 2],
               "internal", FALSE),
      scenario(allDayEvent(<<>>, NULL, "priv", TRUE, <<>>, <<>>), "internal", FALSE),
      scenario(timedEvent(<<att("a", ACCEPTED), att("me", NEEDS_ACTION)>>, "a", "priv", TRUE, <<FALSE>>, <<>>),
               "internal", FALSE),
      scenario(timedEvent(<<att("a", ACCEPTED), att("me", NEEDS_ACTION)>>, "a", NULL, FALSE, <<FALSE>>, <<>>),
               "internal", FALSE),
      scenario(timedEvent(<<att("a", ACCEPTED), att("me", NEEDS_ACTION)>>, "a", NULL, FALSE, <<FALSE>>, <<>>),
               "external", FALSE),
      scenario(timedEvent(<<>>, NULL, "rw", TRUE, <<>>, <<>>), "internal", FALSE),
      scenario(timedEvent(<<att("a", ACCEPTED), att("me", ACCEPTED)>>, "a", "rw", TRUE, <<FALSE>>, <<>>),
               "internal", FALSE),
      scenario(timedEvent(<<>>, NULL, "ro", TRUE, <<>>, <<"5M">>), "internal", FALSE) }

\* events with a repeat rule, and a new event: the view-models of SpecRepeat
untilDateRule(endValue) == [createRepeatRuleWithValues(DAILY, 1) EXCEPT !.endType = UntilDate, !.endValue = num(endValue)]
countRule(n) == [createRepeatRuleWithValues(WEEKLY, 2) EXCEPT !.endType = Count, !.endValue = num(n)]
RepeatScenarios ==
    { scenario(NoEvent, "internal", FALSE),
      \* all day on day 1, every day until day 2
      scenario([allDayEvent(<<>>, NULL, "priv", TRUE, <<>>, <<>>)
                   EXCEPT !.repeatRule = <<untilDateRule(3 * DAY)>>], "internal", FALSE),
      \* 01:00 on day 1 to 02:00 on day 2 in the zone, every day until day 2
      scenario([timedEvent(<<>>, NULL, "priv", TRUE, <<>>, <<>>)
                   EXCEPT !.startTime = DAY + 60 - Zone, !.endTime = 2 * DAY + 120 - Zone,
                          !.repeatRule = <<untilDateRule(3 * DAY - Zone)>>], "internal", FALSE),
      \* 09:00 on day 1, every second week, three times
      scenario([timedEvent(<<>>, NULL, "priv", TRUE, <<>>, <<>>)
                   EXCEPT !.repeatRule = <<countRule(3)>>], "internal", FALSE) }

\* ----------------------------------------------------------------- state
VARIABLES
    accountType,        \* this._user.accountType
    eventType,          \* this._eventType
    existingEvent,      \* this.existingEvent (the object the caller passed)
    selectedCalendar,   \* this.selectedCalendar(): a calendar id or NULL
    inviteBcc,          \* this._inviteModel._bccRecipients
    updateBcc,          \* this._updateModel._bccRecipients
    cancelBcc,          \* this._cancelModel._bccRecipients
    confidential,       \* isConfidential() of the three send models
    guestStatuses,      \* this._guestStatuses()
    ownAttendee,        \* this._ownAttendee(): an address or NULL
    organizer,          \* this.organizer: an address or NULL
    alarms,             \* this.alarms
    alarmsToLoad,       \* alarms of the existing event still being loaded
    nextAlarmId,        \* the next generated alarm identifier
    startDate, endDate, \* this.startDate, this.endDate (instants)
    startTime, endTime, \* this.startTime, this.endTime (time strings)
    oldStartTime,       \* this._oldStartTime
    allDay,             \* this.allDay()
    repeat,             \* this.repeat: <<>> or <<RepeatData>>
    processing,         \* this._processing
    pc,                 \* where the saveAndSend in flight is waiting
    sv,                 \* the locals of the saveAndSend in flight
    delPc,              \* where the deleteEvent in flight is waiting
    calls,              \* what each saveAndSend that found the model idle settled to
    droppedCalls,       \* what each saveAndSend that found the model busy settled to
    log,                \* calls of the latest saveAndSend to its collaborators, in order
    delLog,             \* calls of deleteEvent to its collaborators, in order
    ops,                \* number of user operations so far
    lastOp,             \* the latest user operation
    inviteEvent,        \* the event the caller passes to replyToEventInvitation
    reply,              \* the locals of the latest replyToEventInvitation and the login
    replyPc,            \* where the latest replyToEventInvitation is waiting
    replyLog,           \* its calls to its collaborators, in order
    wizard              \* the dialog of showAddDomainWizard and the locals of the call

vmVars == <<accountType, eventType, existingEvent, selectedCalendar, inviteBcc, updateBcc,
            cancelBcc, confidential, guestStatuses, ownAttendee, organizer, alarms,
            alarmsToLoad, nextAlarmId, startDate, endDate, startTime, endTime,
            oldStartTime, allDay, repeat>>
opVars == <<ops, lastOp>>
replyVars == <<inviteEvent, reply, replyPc, replyLog>>
vars == <<vmVars, processing, pc, sv, delPc, calls, droppedCalls, log, delLog, ops, lastOp, replyVars, wizard>>

calendarsOf(acc) == IF acc = "external" THEN <<>> ELSE Calendars
calendars == calendarsOf(accountType)

\* ------------------------------------------------ derived view-model data
bcc(addr, pw) == [mailAddress |-> addr, password |-> pw]
statusOr(gs, addr, default) == IF addr \in DOMAIN gs THEN gs[addr] ELSE default
\* the attendees stream: invite and update recipients, own attendee first
attendeesOf(inv, upd, gs, own) ==
    LET recipients == inv \o upd
        guests == [i \in 1..Len(recipients) |->
                      [address |-> recipients[i].mailAddress,
                       status |-> statusOr(gs, recipients[i].mailAddress, NEEDS_ACTION),
                       type |-> recipientType(recipients[i].mailAddress),
                       password |-> recipients[i].password]]
    IN IF own /= NULL
       THEN <<[address |-> own, status |-> statusOr(gs, own, ACCEPTED),
               type |-> INTERNAL, password |-> NoPassword]>> \o guests
       ELSE guests
attendees == attendeesOf(inviteBcc, updateBcc, guestStatuses, ownAttendee)
findOwnAttendee == \E i \in 1..Len(attendees) : includes(mailAddresses, attendees[i].address)

_initEventType(ev, cals) ==
    IF ~ev.exists THEN OWN
    ELSE LET calendarInfoForEvent == calendarGet(cals, ev.ownerGroup)
         IN IF ev.ownerGroup /= NULL /\ calendarInfoForEvent.id /= NULL
            THEN IF calendarInfoForEvent.shared
                 THEN IF hasCapabilityOnGroup(calendarInfoForEvent) THEN SHARED_RW ELSE SHARED_RO
                 ELSE IF ev.organizer = NULL \/ includes(mailAddresses, ev.organizer)
                      THEN OWN ELSE INVITE
            ELSE INVITE

isReadOnlyEventOf(et, atts) == et = SHARED_RO \/ (et = SHARED_RW /\ Len(atts) > 0)
isReadOnlyEvent == isReadOnlyEventOf(eventType, attendees)
getAvailableCalendarsOf(et, atts, ev, cals) ==
    IF isReadOnlyEventOf(et, atts)
    THEN SelectSeq(cals, LAMBDA c : c.id = ev.ownerGroup)
    ELSE IF Len(atts) > 0 /\ et /= INVITE
         THEN SelectSeq(cals, LAMBDA c : ~c.shared)
         ELSE SelectSeq(cals, LAMBDA c : hasCapabilityOnGroup(c))
getAvailableCalendars == getAvailableCalendarsOf(eventType, attendees, existingEvent, calendars)

_viewingOwnEvent == eventType = OWN
canModifyGuests ==
    selectedCalendar /= NULL /\ ~calendarGet(calendars, selectedCalendar).shared /\ eventType /= INVITE
canModifyOwnAttendanceOf(atts) ==
    eventType \in {OWN, INVITE}
    /\ (_viewingOwnEvent \/ \E i \in 1..Len(atts) : includes(mailAddresses, atts[i].address))
canModifyOwnAttendance == canModifyOwnAttendanceOf(attendees)
canModifyOrganizer ==
    eventType = OWN
    /\ (~existingEvent.exists
        \/ Len(existingEvent.attendees) = 0
        \/ (Len(existingEvent.attendees) = 1
            /\ includes(mailAddresses, existingEvent.attendees[1].address)))
canModifyAlarms == eventType \in {OWN, INVITE, SHARED_RW}

\* this.possibleOrganizers, fixed by the constructor
possibleOrganizers ==
    LET existingOrganizer == existingEvent.organizer
    IN IF existingOrganizer /= NULL /\ ~canModifyOrganizer
       THEN <<existingOrganizer>>
       ELSE IF existingOrganizer /= NULL /\ ~includes(mailAddresses, existingOrganizer)
            THEN <<existingOrganizer>> \o mailAddresses
            ELSE mailAddresses

\* ------------------------------------------------------------ construction
\* the locals of a saveAndSend before one was started
NoSave ==
    [newEvent |-> NoEvent, newAlarms |-> <<>>, existingAttendees |-> <<>>,
     sendOutUpdate |-> FALSE, branch |-> NULL, selectedCalendar |-> NULL, call |-> 0]

\* _initGuestStatus: own attendee, update recipients and the status map
initOwnAttendee(ev) ==
    LET ownIdx == {i \in 1..Len(ev.attendees) : includes(mailAddresses, ev.attendees[i].address)}
    IN IF ownIdx = {} THEN NULL
       ELSE ev.attendees[CHOOSE i \in ownIdx : \A j \in ownIdx : j <= i].address
initUpdateBcc(ev) ==
    LET others == SelectSeq(ev.attendees, LAMBDA a : ~includes(mailAddresses, a.address))
    IN [i \in 1..Len(others) |-> bcc(others[i].address, NoPassword)]
initGuestStatus(ev) ==
    [addr \in {ev.attendees[i].address : i \in 1..Len(ev.attendees)} |->
        ev.attendees[CHOOSE i \in 1..Len(ev.attendees) :
                        /\ ev.attendees[i].address = addr
                        /\ \A j \in (i + 1)..Len(ev.attendees) : ev.attendees[j].address /= addr].status]

\* the constructor, for one of the Scenarios
construct(sc) ==
    LET ev == sc.event
        cals == calendarsOf(sc.accountType)
        own == initOwnAttendee(ev)
        upd == initUpdateBcc(ev)
        gs == initGuestStatus(ev)
        et == _initEventType(ev, cals)
        avail == getAvailableCalendarsOf(et, attendeesOf(<<>>, upd, gs, own), ev, cals)
        calendarForGroup == calendarGet(cals, ev.ownerGroup)
        newDate == T0
    IN /\ accountType = sc.accountType
       /\ existingEvent = ev
       /\ inviteBcc = <<>>
       /\ updateBcc = upd
       /\ cancelBcc = <<>>
       /\ ownAttendee = own
       /\ guestStatuses = gs
       /\ organizer = IF ev.exists /\ ev.organizer /= NULL THEN ev.organizer ELSE mailAddresses[1]
       /\ confidential = IF ev.exists /\ ev.invitedConfidentially /= <<>>
                         THEN ev.invitedConfidentially[1] ELSE sc.defaultConfidential
       /\ eventType = et
       /\ selectedCalendar = IF ev.exists /\ ev.ownerGroup /= NULL /\ calendarForGroup.id /= NULL
                             THEN calendarForGroup.id
                             ELSE IF Len(avail) > 0 THEN avail[1].id ELSE NULL
       /\ alarms = <<>>
       /\ alarmsToLoad = ev.alarmInfos
       /\ nextAlarmId = 1
       /\ oldStartTime = <<>>
       /\ repeat = IF ev.exists THEN repeatOf(ev) ELSE <<>>
       /\ IF ev.exists
          THEN \* _applyValuesFromExistingEvent
               /\ allDay = isAllDayEvent(ev)
               /\ startDate = getStartOfDayWithZone(getEventStart(ev))
               /\ IF isAllDayEvent(ev)
                  THEN /\ endDate = getEventEnd(ev) - DAY
                       /\ startTime = NowTime
                       /\ endTime = timeStringFromParts(NowTime[1], NowTime[2] + 30)
                  ELSE /\ startTime = timeStringInZone(getEventStart(ev))
                       /\ endTime = timeStringInZone(getEventEnd(ev))
                       /\ endDate = getStartOfDayWithZone(getEventEnd(ev))
          ELSE /\ allDay = FALSE
               /\ startTime = timeStringInZone(newDate)
               /\ endTime = timeStringInZone(newDate + 30)
               /\ startDate = getStartOfDayWithZone(newDate)
               /\ endDate = getStartOfDayWithZone(newDate)

idle ==
    /\ processing = FALSE
    /\ pc = "idle"
    /\ sv = NoSave
    /\ delPc = "idle"
    /\ calls = <<>>
    /\ droppedCalls = <<>>
    /\ log = <<>>
    /\ delLog = <<>>
    /\ ops = 0
    /\ lastOp = NULL
\* the locals of a replyToEventInvitation before one was called
NoReply ==
    [internal |-> TRUE, calendars |-> Calendars, call |-> 0, attendee |-> NULL, decision |-> NULL,
     eventClone |-> NoEvent, foundAttendee |-> 0, calendar |-> NULL, error |-> NULL]
\* the wizard dialog createWizardDialog builds for a domain: not shown yet
\* (currentPage counts from 1, advances counts the page changes, actionsRun
\* lists the pages whose nextAction was called, ready is what the pending
\* nextAction settled to)
createWizardDialog(domain) ==
    [domain |-> domain, pc |-> "new", currentPage |-> 1, closed |-> FALSE, advances |-> 0,
     actionsRun |-> <<>>, ready |-> <<>>]
noWizard == wizard = createWizardDialog(<<>>)
noReply ==
    /\ inviteEvent = NoEvent
    /\ reply = NoReply
    /\ replyPc = "idle"
    /\ replyLog = <<>>
    /\ noWizard
Init == (\E sc \in Scenarios : construct(sc)) /\ idle /\ noReply
InitRepeat == (\E sc \in RepeatScenarios : construct(sc)) /\ idle /\ noReply

\* ---------------------------------------------------------------- inputs
\* the pre-shared password of the contact given to addAttendee
ContactPasswords(mailAddress) ==
    IF recipientType(mailAddress) = EXTERNAL THEN {NoPassword, "weak"} ELSE {NoPassword}
GoingInputs == {ACCEPTED, NEEDS_ACTION}
TimeInputs == {<<8, 30>>, <<9, 0>>, <<24, 0>>}
DateInputs == {0 * DAY - Zone, 2 * DAY - Zone}
Triggers == {"5M", "1H"}
RepeatPeriodInputs == {NULL, DAILY, WEEKLY}
EndTypeInputs == {Never, Count, UntilDate}
OccurencesInputs == {NaN, num(0), num(1), num(3)}
RepeatEndDateInputs == {0 - DAY - Zone, 0 * DAY - Zone, 2 * DAY - Zone}
IntervalInputs == {0, 2}
RepeatTimeInputs == {<<1, 0>>, <<9, 0>>}

envVars == <<accountType, eventType>>
repeatVars == <<repeat>>
guestVars == <<inviteBcc, updateBcc, cancelBcc, guestStatuses, ownAttendee>>
timeVars == <<startDate, endDate, startTime, endTime, oldStartTime, allDay>>
alarmVars == <<alarms, alarmsToLoad, nextAlarmId>>
saveVars == <<processing, pc, sv, calls, droppedCalls>>
delVars == <<delPc, delLog>>

\* one more operation of the user on the view-model
userOp(name) == ops < MaxOps /\ ops' = ops + 1 /\ lastOp' = name

\* -------------------------------------------------------------- mutators
\* selectGoing on the given statuses and own attendee: the new pair
selectGoingOn(gs, own, atts, going) ==
    IF canModifyOwnAttendanceOf(atts)
    THEN IF own /= NULL
         THEN [gs |-> addMapEntry(gs, own, going), own |-> own]
         ELSE IF eventType = OWN
              THEN [gs |-> addMapEntry(gs, mailAddresses[1], going), own |-> mailAddresses[1]]
              ELSE [gs |-> gs, own |-> own]
    ELSE [gs |-> gs, own |-> own]

selectGoing(going) ==
    LET r == selectGoingOn(guestStatuses, ownAttendee, attendees, going)
    IN /\ userOp("selectGoing")
       /\ guestStatuses' = r.gs
       /\ ownAttendee' = r.own
       /\ UNCHANGED <<envVars, repeatVars, replyVars, wizard, existingEvent, selectedCalendar, inviteBcc, updateBcc, cancelBcc,
                      confidential, organizer, alarmVars, timeVars, saveVars, delVars, log>>

addAttendee(mailAddress, contactPassword) ==
    /\ userOp("addAttendee")
    /\ IF \E i \in 1..Len(attendees) : attendees[i].address = mailAddress
       THEN UNCHANGED <<inviteBcc, guestStatuses, ownAttendee>>
       ELSE LET inv == Append(inviteBcc, bcc(mailAddress, contactPassword))
                isOwnAttendee == includes(mailAddresses, mailAddress)
                status == IF isOwnAttendee THEN ACCEPTED ELSE ADDED
                gs == addMapEntry(guestStatuses, mailAddress, status)
                atts == attendeesOf(inv, updateBcc, gs, ownAttendee)
                r == IF Len(atts) = 1
                        /\ ~\E i \in 1..Len(atts) : includes(mailAddresses, atts[i].address)
                     THEN selectGoingOn(gs, ownAttendee, atts, ACCEPTED)
                     ELSE [gs |-> gs, own |-> ownAttendee]
            IN /\ inviteBcc' = inv
               /\ guestStatuses' = r.gs
               /\ ownAttendee' = r.own
    /\ UNCHANGED <<envVars, repeatVars, replyVars, wizard, existingEvent, selectedCalendar, updateBcc, cancelBcc,
                   confidential, organizer, alarmVars, timeVars, saveVars, delVars, log>>

removeRecipient(s, addr) == IF findBcc(s, addr) = 0 THEN s ELSE removeAt(s, findBcc(s, addr))

removeAttendee(guest) ==
    LET existingRecipient == existingEvent.exists /\ findIndex(existingEvent.attendees, guest) /= 0
        found == \E model \in {inviteBcc, updateBcc, cancelBcc} : findBcc(model, guest) /= 0
        cancel == removeRecipient(cancelBcc, guest)
    IN /\ userOp("removeAttendee")
       /\ inviteBcc' = removeRecipient(inviteBcc, guest)
       /\ updateBcc' = removeRecipient(updateBcc, guest)
       /\ guestStatuses' = IF found /\ guest \in DOMAIN guestStatuses
                           THEN mapDelete(guestStatuses, guest) ELSE guestStatuses
       /\ cancelBcc' = IF existingRecipient THEN Append(cancel, bcc(guest, NoPassword)) ELSE cancel
       /\ UNCHANGED <<envVars, repeatVars, replyVars, wizard, existingEvent, selectedCalendar, ownAttendee,
                      confidential, organizer, alarmVars, timeVars, saveVars, delVars, log>>

\* a change of setOrganizer that does not ask canModifyOrganizer
setOrganizerUnguarded(newOrganizer) ==
    /\ userOp("setOrganizer")
    /\ organizer' = newOrganizer
    /\ ownAttendee' = newOrganizer
    /\ UNCHANGED <<envVars, repeatVars, replyVars, wizard, existingEvent, selectedCalendar, inviteBcc, updateBcc, cancelBcc,
                   guestStatuses, confidential, alarmVars, timeVars, saveVars, delVars, log>>
setOrganizer(newOrganizer) ==
    /\ userOp("setOrganizer")
    /\ IF canModifyOrganizer
       THEN organizer' = newOrganizer /\ ownAttendee' = newOrganizer
       ELSE UNCHANGED <<organizer, ownAttendee>>
    /\ UNCHANGED <<envVars, repeatVars, replyVars, wizard, existingEvent, selectedCalendar, inviteBcc, updateBcc, cancelBcc,
                   guestStatuses, confidential, alarmVars, timeVars, saveVars, delVars, log>>

createCalendarAlarm(identifier, trigger) == [alarmIdentifier |-> identifier, trigger |-> trigger]

addAlarm(trigger) ==
    /\ userOp("addAlarm")
    /\ alarms' = Append(alarms, createCalendarAlarm(nextAlarmId, trigger))
    /\ nextAlarmId' = nextAlarmId + 1
    /\ UNCHANGED <<envVars, repeatVars, replyVars, wizard, existingEvent, selectedCalendar, guestVars, confidential, organizer,
                   alarmsToLoad, timeVars, saveVars, delVars, log>>

\* the continuation of loadAlarms in the constructor: addAlarm for each alarm
alarmsLoaded ==
    /\ alarmsToLoad /= <<>>
    /\ alarms' = alarms \o [i \in 1..Len(alarmsToLoad) |->
                               createCalendarAlarm(nextAlarmId + i - 1, alarmsToLoad[i])]
    /\ nextAlarmId' = nextAlarmId + Len(alarmsToLoad)
    /\ alarmsToLoad' = <<>>
    /\ UNCHANGED <<envVars, repeatVars, replyVars, wizard, existingEvent, selectedCalendar, guestVars, confidential, organizer,
                   timeVars, saveVars, delVars, log, opVars>>

\* trigger = NULL removes the alarm
changeAlarm(identifier, trigger) ==
    LET i == IF \E k \in 1..Len(alarms) : alarms[k].alarmIdentifier = identifier
             THEN CHOOSE k \in 1..Len(alarms) :
                     /\ alarms[k].alarmIdentifier = identifier
                     /\ \A j \in 1..(k - 1) : alarms[j].alarmIdentifier /= identifier
             ELSE 0
    IN /\ userOp("changeAlarm")
       /\ alarms' = IF i = 0 THEN alarms
                    ELSE IF trigger /= NULL
                         THEN [alarms EXCEPT ![i].trigger = trigger]
                         ELSE removeAt(alarms, i)
       /\ UNCHANGED <<envVars, repeatVars, replyVars, wizard, existingEvent, selectedCalendar, guestVars, confidential, organizer,
                      alarmsToLoad, nextAlarmId, timeVars, saveVars, delVars, log>>

\* a change of selectCalendar that classifies the event again by the calendar picked
selectCalendarRetypes(calendarInfo) ==
    /\ userOp("selectCalendar")
    /\ selectedCalendar' = calendarInfo.id
    /\ eventType' = _initEventType([existingEvent EXCEPT !.exists = TRUE, !.ownerGroup = calendarInfo.id],
                                   calendars)
    /\ UNCHANGED <<accountType, repeatVars, replyVars, wizard, existingEvent, guestVars, confidential, organizer,
                   alarmVars, timeVars, saveVars, delVars, log>>
\* the view picks one of getAvailableCalendars() into the selectedCalendar stream
selectCalendar(calendarInfo) ==
    /\ userOp("selectCalendar")
    /\ selectedCalendar' = calendarInfo.id
    /\ UNCHANGED <<envVars, repeatVars, replyVars, wizard, existingEvent, guestVars, confidential, organizer, alarmVars,
                   timeVars, saveVars, delVars, log>>

setConfidential(value) ==
    /\ userOp("setConfidential")
    /\ confidential' = value
    /\ UNCHANGED <<envVars, repeatVars, replyVars, wizard, existingEvent, selectedCalendar, guestVars, organizer, alarmVars,
                   timeVars, saveVars, delVars, log>>

\* _adjustEndTime with the given old and new start time: the new end time
_adjustEndTime(old, start, end) ==
    LET parsedOldStartTime == IF old = <<>> THEN <<>> ELSE parseTime(old)
        parsedStartTime == parseTime(start)
        parsedEndTime == parseTime(end)
    IN IF parsedStartTime = <<>> \/ parsedEndTime = <<>> \/ parsedOldStartTime = <<>>
       THEN end
       ELSE LET endTotalMinutes == parsedEndTime[1].hours * 60 + parsedEndTime[1].minutes
                startTotalMinutes == parsedStartTime[1].hours * 60 + parsedStartTime[1].minutes
                d == endTotalMinutes - parsedOldStartTime[1].hours * 60 - parsedOldStartTime[1].minutes
                diff == IF d < 0 THEN -d ELSE d
                newEndTotalMinutes == startTotalMinutes + diff
                hours == newEndTotalMinutes \div 60
                newEndHours == IF hours > 23 THEN 23 ELSE hours
                newEndMinutes == newEndTotalMinutes % 60
            IN timeStringFromParts(newEndHours, newEndMinutes)

onStartTimeSelected(value) ==
    /\ userOp("onStartTimeSelected")
    /\ oldStartTime' = startTime
    /\ startTime' = value
    /\ endTime' = IF startDate = endDate THEN _adjustEndTime(startTime, value, endTime) ELSE endTime
    /\ UNCHANGED <<envVars, repeatVars, replyVars, wizard, existingEvent, selectedCalendar, guestVars, confidential, organizer,
                   alarmVars, startDate, endDate, allDay, saveVars, delVars, log>>

onEndTimeSelected(value) ==
    /\ userOp("onEndTimeSelected")
    /\ endTime' = value
    /\ UNCHANGED <<envVars, repeatVars, replyVars, wizard, existingEvent, selectedCalendar, guestVars, confidential, organizer,
                   alarmVars, startDate, endDate, startTime, oldStartTime, allDay, saveVars, delVars, log>>

onEndDateSelected(date) ==
    /\ userOp("onEndDateSelected")
    /\ endDate' = date
    /\ UNCHANGED <<envVars, repeatVars, replyVars, wizard, existingEvent, selectedCalendar, guestVars, confidential, organizer,
                   alarmVars, startDate, startTime, endTime, oldStartTime, allDay, saveVars, delVars, log>>

\* the view writes the allDay stream
setAllDay(value) ==
    /\ userOp("setAllDay")
    /\ allDay' = value
    /\ UNCHANGED <<envVars, repeatVars, replyVars, wizard, existingEvent, selectedCalendar, guestVars, confidential, organizer,
                   alarmVars, startDate, endDate, startTime, endTime, oldStartTime, saveVars, delVars, log>>

\* the mutators of this.repeat leave everything else as it is
repeatFrame ==
    UNCHANGED <<envVars, replyVars, wizard, existingEvent, selectedCalendar, guestVars, confidential,
                organizer, alarmVars, timeVars, saveVars, delVars, log>>

onRepeatPeriodSelected(repeatPeriod) ==
    /\ userOp("onRepeatPeriodSelected")
    /\ repeat' = IF repeatPeriod = NULL THEN <<>>
                 ELSE IF repeat = <<>> THEN <<repeatData(repeatPeriod, 1, Never, num(1))>>
                 ELSE <<[repeat[1] EXCEPT !.frequency = repeatPeriod]>>
    /\ repeatFrame

onEndOccurencesSelected(endValue) ==
    /\ userOp("onEndOccurencesSelected")
    /\ repeat' = IF repeat /= <<>> /\ repeat[1].endType = Count
                 THEN <<[repeat[1] EXCEPT !.endValue = endValue]>>
                 ELSE repeat
    /\ repeatFrame

onRepeatEndDateSelected(date) ==
    /\ userOp("onRepeatEndDateSelected")
    /\ repeat' = IF repeat /= <<>> /\ repeat[1].endType = UntilDate
                 THEN <<[repeat[1] EXCEPT !.endValue = num(date)]>>
                 ELSE repeat
    /\ repeatFrame

onRepeatIntervalChanged(interval) ==
    /\ userOp("onRepeatIntervalChanged")
    /\ repeat' = IF repeat /= <<>> THEN <<[repeat[1] EXCEPT !.interval = interval]>> ELSE repeat
    /\ repeatFrame

onRepeatEndTypeChanged(endType) ==
    /\ userOp("onRepeatEndTypeChanged")
    /\ repeat' = IF repeat = <<>> THEN repeat
                 ELSE <<[repeat[1] EXCEPT
                           !.endType = endType,
                           !.endValue = IF endType = UntilDate
                                        THEN num(incrementByRepeatPeriod(Now, MONTHLY, 1))
                                        ELSE num(1)]>>
    /\ repeatFrame

\* ----------------------------------------------------------- saveAndSend
\* a call to a collaborator: the distributor, the calendar model or one of
\* the callbacks of saveAndSend; phase is "start", "ok" or "fail"
entry(call, kind, phase, to, ev) ==
    [call |-> call, kind |-> kind, phase |-> phase, to |-> to, event |-> ev]

\* the finally of saveAndSend together with the value the promise settles to
settled(lg, result) == [pc |-> "idle", log |-> lg, result |-> result]
waiting(at, lg) == [pc |-> at, log |-> lg, result |-> "pending"]

\* a change of runUpdate that does not look at the answer of the user
runUpdateUnasked(s, lg) ==
    IF s.branch = "updates" /\ Len(s.existingAttendees) > 0
    THEN [pc |-> "sendUpdate",
          log |-> Append(lg, [call |-> s.call, kind |-> "sendUpdate", phase |-> "start",
                              to |-> bccAddresses(updateBcc), event |-> s.newEvent]),
          result |-> "pending"]
    ELSE [pc |-> "idle", log |-> lg, result |-> "true"]
\* sendUpdate after the event was persisted
runUpdate(s, lg) ==
    IF s.branch = "updates" /\ s.sendOutUpdate /\ Len(s.existingAttendees) > 0
    THEN waiting("sendUpdate",
                 Append(lg, entry(s.call, "sendUpdate", "start", bccAddresses(updateBcc), s.newEvent)))
    ELSE settled(lg, "true")

doCreateEvent(s, lg) ==
    IF accountType = "external"
    THEN runUpdate(s, lg)
    ELSE IF selectedCalendar = NULL
         THEN settled(lg, "assertNotNull")
         ELSE IF ~existingEvent.exists \/ ~existingEvent.hasId
              THEN waiting("persist", Append(lg, entry(s.call, "createEvent", "start", {}, s.newEvent)))
              ELSE waiting("persist", Append(lg, entry(s.call, "updateEvent", "start", {}, s.newEvent)))

runCancel(s, lg) ==
    IF s.branch = "updates" /\ Len(cancelBcc) > 0
    THEN waiting("sendCancellation",
                 Append(lg, entry(s.call, "sendCancellation", "start", bccAddresses(cancelBcc), s.newEvent)))
    ELSE doCreateEvent(s, lg)

newAttendeesOf(ev) == {i \in 1..Len(ev.attendees) : ev.attendees[i].status = ADDED}

\* a change of _sendInvite that does not wait for the invite to be sent
_sendInviteNoWait(s, lg) ==
    IF newAttendeesOf(s.newEvent) /= {}
    THEN runCancel(s, Append(lg, entry(s.call, "sendInvite", "start", bccAddresses(inviteBcc), s.newEvent)))
    ELSE runCancel(s, lg)
_sendInvite(s, lg) ==
    IF newAttendeesOf(s.newEvent) /= {}
    THEN waiting("sendInvite",
                 Append(lg, entry(s.call, "sendInvite", "start", bccAddresses(inviteBcc), s.newEvent)))
    ELSE runCancel(s, lg)

\* the continuation that receives the answer of the password check
afterPasswordCheck(s, lg, send) ==
    IF s.branch = "other"
    THEN IF send THEN doCreateEvent(s, lg) ELSE settled(lg, "true")
    ELSE IF ~send THEN settled(lg, "false") ELSE _sendInvite(s, lg)

\* hasInsecurePasswords, on the recipients of the three send models
hasInsecurePasswords ==
    /\ confidential
    /\ eventType /= INVITE
    /\ \E r \in Range(inviteBcc \o updateBcc \o cancelBcc) :
          r.password /= NoPassword /\ getPasswordStrength(r.password) < 80

\* a change of continue that clears the flag in a then() instead of the
\* finally: a save that rejects leaves it set
continueNoFinally(r) ==
    /\ pc' = r.pc
    /\ log' = r.log
    /\ UNCHANGED droppedCalls
    /\ IF r.result = "pending"
       THEN UNCHANGED <<processing, calls>>
       ELSE /\ processing' = (r.result \notin {"true", "false"})
            /\ calls' = [calls EXCEPT ![sv.call] = r.result]
\* the state after a step of the chain that ends as r says
continue(r) ==
    /\ pc' = r.pc
    /\ log' = r.log
    /\ UNCHANGED droppedCalls
    /\ IF r.result = "pending"
       THEN UNCHANGED <<processing, calls>>
       ELSE processing' = FALSE /\ calls' = [calls EXCEPT ![sv.call] = r.result]

\* a change of saveAndSendBusy that runs the finally of the save for it too
saveAndSendBusyReleases ==
    /\ Len(droppedCalls) < MaxDropped
    /\ processing
    /\ droppedCalls' = Append(droppedCalls, "false")
    /\ processing' = FALSE
    /\ UNCHANGED <<vmVars, replyVars, wizard, pc, sv, calls, delVars, log, opVars>>
\* saveAndSend called while a save is in flight
saveAndSendBusy ==
    /\ Len(droppedCalls) < MaxDropped
    /\ processing
    /\ droppedCalls' = Append(droppedCalls, "false")
    /\ UNCHANGED <<vmVars, replyVars, wizard, processing, pc, sv, calls, delVars, log, opVars>>

\* saveAndSend up to the point where it returns the promise, for a
\* view-model on which it is called at most n times
saveAndSendUpTo(n) ==
    /\ Len(calls) < n
    /\ ~processing
    /\ processing' = TRUE
    /\ pc' = "body"
    /\ sv' = [NoSave EXCEPT !.call = Len(calls) + 1, !.selectedCalendar = selectedCalendar]
    /\ calls' = Append(calls, "pending")
    /\ log' = <<>>
    /\ UNCHANGED <<vmVars, replyVars, wizard, droppedCalls, delVars, opVars>>
saveAndSend == saveAndSendUpTo(MaxSaves)

\* the computed start and end instants of the event being saved
computedStart ==
    IF allDay THEN getAllDayDateUTCFromZone(startDate)
    ELSE setHourMinute(startDate, parseTime(startTime)[1].hours, parseTime(startTime)[1].minutes)
computedEnd ==
    IF allDay THEN getAllDayDateUTCFromZone(getStartOfNextDayWithZone(endDate))
    ELSE setHourMinute(endDate, parseTime(endTime)[1].hours, parseTime(endTime)[1].minutes)

\* a change of the check below that lets an empty event through
startAfterEndStrict(start, end) == end < start
\* the check of the computed instants: is the event empty or reversed
startAfterEnd(start, end) == end <= start

\* a change of newEventSequence that keeps the counter of the existing event
newEventSequenceKept(sequence) == sequence
\* the sequence counter saveAndSend gives the new revision of an existing event
newEventSequence(sequence) == sequence + 1

\* this.createRepeatRule(newEvent, repeat), newEvent having its times
createRepeatRule(newEvent, rep) == createRepeatRuleOf(newEvent, rep, allDay)
\* saveAndSend: the repeat rule of the new event, or the error of building it
newEventRepeatRule ==
    IF repeat = <<>> THEN [error |-> NULL, rule |-> <<>>]
    ELSE LET r == createRepeatRule([NoEvent EXCEPT !.exists = TRUE, !.startTime = computedStart,
                                                   !.endTime = computedEnd], repeat[1])
         IN [error |-> r.error, rule |-> <<r.rule>>]

\* the event saveAndSend builds from the clone of the existing event
buildNewEvent ==
    [(IF existingEvent.exists THEN existingEvent ELSE [NoEvent EXCEPT !.exists = TRUE])
        EXCEPT !.startTime = computedStart,
               !.endTime = computedEnd,
               !.invitedConfidentially = <<confidential>>,
               !.repeatRule = newEventRepeatRule.rule,
               !.attendees = [i \in 1..Len(attendees) |-> att(attendees[i].address, attendees[i].status)],
               !.sequence = IF existingEvent.exists THEN newEventSequence(existingEvent.sequence) ELSE @,
               !.organizer = organizer]

\* attendees of the existing event that are still guests, own address excluded
existingAttendeesOf(atts) ==
    SelectSeq(atts, LAMBDA guest :
        /\ ~includes(mailAddresses, guest.address)
        /\ findIndex(existingEvent.attendees, guest.address) /= 0)

\* index of the user's own attendee on the event as it was passed in
ownAttendeeIndex(ev) ==
    IF \E i \in 1..Len(ev.attendees) : includes(mailAddresses, ev.attendees[i].address)
    THEN CHOOSE i \in 1..Len(ev.attendees) :
            /\ includes(mailAddresses, ev.attendees[i].address)
            /\ \A j \in 1..(i - 1) : ~includes(mailAddresses, ev.attendees[j].address)
    ELSE 0

\* a change of respondsTo that answers also when the status is the one on the event
respondsToAnyChoice(status, going) == going /= NEEDS_ACTION
\* saveAndSend, event of somebody else: is the organizer told about the attendance
respondsTo(status, going) == going /= NEEDS_ACTION /\ status /= going

\* the body of saveAndSend: from the first continuation to the first wait
saveBody ==
    /\ pc = "body"
    /\ UNCHANGED <<envVars, repeatVars, replyVars, wizard, selectedCalendar, guestVars, confidential, organizer, alarmVars,
                   timeVars, delVars, opVars>>
    /\ IF ~allDay /\ (parseTime(startTime) = <<>> \/ parseTime(endTime) = <<>>)
       THEN continue(settled(log, "timeFormatInvalid_msg")) /\ UNCHANGED <<sv, existingEvent>>
       ELSE IF startAfterEnd(computedStart, computedEnd)
       THEN continue(settled(log, "startAfterEnd_label")) /\ UNCHANGED <<sv, existingEvent>>
       ELSE IF ~existingEvent.exists /\ sv.selectedCalendar = NULL
       THEN continue(settled(log, "assertNotNull")) /\ UNCHANGED <<sv, existingEvent>>
       ELSE IF newEventRepeatRule.error /= NULL
       THEN continue(settled(log, newEventRepeatRule.error)) /\ UNCHANGED <<sv, existingEvent>>
       ELSE IF _viewingOwnEvent
       THEN LET existingAttendees == IF existingEvent.exists THEN existingAttendeesOf(attendees) ELSE <<>>
                ask == Len(existingAttendees) > 0 \/ Len(cancelBcc) > 0
                s == [sv EXCEPT !.newEvent = buildNewEvent, !.newAlarms = alarms,
                                !.existingAttendees = existingAttendees,
                                !.branch = IF ask THEN "updates" ELSE "simple"]
            IN /\ sv' = s
               /\ UNCHANGED existingEvent
               /\ IF ask
                  THEN continue(waiting("askForUpdates",
                                        Append(log, entry(s.call, "askForUpdates", "start", {}, NoEvent))))
                  ELSE continue(waiting("passwordCheck", log))
       ELSE LET s == [sv EXCEPT !.newEvent = buildNewEvent, !.newAlarms = alarms, !.branch = "other"]
                i == ownAttendeeIndex(existingEvent)
                going == IF i = 0 THEN NULL
                         ELSE statusOr(guestStatuses, existingEvent.attendees[i].address, NULL)
                respond == i /= 0 /\ respondsTo(existingEvent.attendees[i].status, going)
            IN /\ sv' = s
               /\ IF ~respond
                  THEN UNCHANGED existingEvent /\ continue(waiting("passwordCheck", log))
                  ELSE IF going = NULL
                  THEN UNCHANGED existingEvent /\ continue(settled(log, "assertNotNull"))
                  ELSE /\ existingEvent' = [existingEvent EXCEPT !.attendees[i].status = going]
                       /\ IF existingEvent.organizer = NULL
                          THEN continue(settled(log, "assertNotNull"))
                          ELSE continue(waiting("passwordCheck",
                                   Append(log, entry(s.call, "sendResponse", "start",
                                                     {existingEvent.organizer}, s.newEvent))))

\* the user answers the askForUpdates prompt
answerForUpdates(sendOutUpdate) ==
    LET s == [sv EXCEPT !.sendOutUpdate = sendOutUpdate]
        lg == Append(log, entry(sv.call, "askForUpdates", IF sendOutUpdate THEN "yes" ELSE "no", {}, NoEvent))
    IN /\ pc = "askForUpdates"
       /\ sv' = s
       /\ IF sendOutUpdate
          THEN continue(waiting("passwordCheck", lg))
          ELSE continue(afterPasswordCheck(s, lg, TRUE))
       /\ UNCHANGED <<vmVars, replyVars, wizard, delVars, opVars>>

\* hasInsecurePasswords has resolved
passwordCheck ==
    /\ pc = "passwordCheck"
    /\ IF hasInsecurePasswords
       THEN continue(waiting("askInsecurePassword",
                             Append(log, entry(sv.call, "askInsecurePassword", "start", {}, NoEvent))))
       ELSE continue(afterPasswordCheck(sv, log, TRUE))
    /\ UNCHANGED <<vmVars, replyVars, wizard, sv, delVars, opVars>>

\* the user answers the askInsecurePassword prompt
answerInsecurePassword(send) ==
    /\ pc = "askInsecurePassword"
    /\ continue(afterPasswordCheck(sv,
           Append(log, entry(sv.call, "askInsecurePassword", IF send THEN "yes" ELSE "no", {}, NoEvent)),
           send))
    /\ UNCHANGED <<vmVars, replyVars, wizard, sv, delVars, opVars>>

phaseOf(ok) == IF ok THEN "ok" ELSE "fail"

\* distributor.sendInvite has settled; on success the continuation of _sendInvite
inviteSent(ok) ==
    LET new == newAttendeesOf(sv.newEvent)
        newAddresses == {sv.newEvent.attendees[i].address : i \in new}
        s == [sv EXCEPT !.newEvent.attendees =
                 [i \in 1..Len(sv.newEvent.attendees) |->
                     IF i \in new THEN att(sv.newEvent.attendees[i].address, NEEDS_ACTION)
                     ELSE sv.newEvent.attendees[i]]]
        lg == Append(log, entry(sv.call, "sendInvite", phaseOf(ok), {}, NoEvent))
    IN /\ pc = "sendInvite"
       /\ IF ok
          THEN /\ sv' = s
               /\ guestStatuses' = [k \in (DOMAIN guestStatuses) \cup newAddresses |->
                                       IF k \in newAddresses THEN NEEDS_ACTION ELSE guestStatuses[k]]
               /\ continue(runCancel(s, lg))
          ELSE /\ UNCHANGED <<sv, guestStatuses>>
               /\ continue(settled(lg, "error"))
       /\ UNCHANGED <<envVars, repeatVars, replyVars, wizard, existingEvent, selectedCalendar, inviteBcc, updateBcc, cancelBcc,
                      ownAttendee, confidential, organizer, alarmVars, timeVars, delVars, opVars>>

\* distributor.sendCancellation of the save has settled
cancellationSent(ok) ==
    LET lg == Append(log, entry(sv.call, "sendCancellation", phaseOf(ok), {}, NoEvent))
    IN /\ pc = "sendCancellation"
       /\ continue(IF ok THEN doCreateEvent(sv, lg) ELSE settled(lg, "error"))
       /\ UNCHANGED <<vmVars, replyVars, wizard, sv, delVars, opVars>>

\* calendarModel.createEvent or updateEvent has settled
eventPersisted(ok) ==
    LET lg == Append(log, entry(sv.call, "persist", phaseOf(ok), {}, NoEvent))
    IN /\ pc = "persist"
       /\ continue(IF ok THEN runUpdate(sv, lg) ELSE settled(lg, "error"))
       /\ UNCHANGED <<vmVars, replyVars, wizard, sv, delVars, opVars>>

\* distributor.sendUpdate has settled
updateSent(ok) ==
    LET lg == Append(log, entry(sv.call, "sendUpdate", phaseOf(ok), {}, NoEvent))
    IN /\ pc = "sendUpdate"
       /\ continue(settled(lg, IF ok THEN "true" ELSE "error"))
       /\ UNCHANGED <<vmVars, replyVars, wizard, sv, delVars, opVars>>

\* ------------------------------------------------------------ deleteEvent
\* _sendCancellation: the recipients it adds to the cancel model
cancelAddresses(ev) ==
    LET others == SelectSeq(ev.attendees, LAMBDA a : ~includes(mailAddresses, a.address))
    IN [i \in 1..Len(others) |-> bcc(others[i].address, NoPassword)]
incrementSequence(sequence) == sequence + 1

\* how the promise of deleteEvent settles
deleteSettled(how) == entry(0, "deleteEvent", how, {}, NoEvent)
\* a change of deleteSettles without the catch of NotFoundError
deleteSettlesUncaught(outcome) == IF outcome = "ok" THEN "resolved" ELSE "rejected"
\* the promise after calendarModel.deleteEvent: a NotFoundError is swallowed
deleteSettles(outcome) == IF outcome \in {"ok", "notFound"} THEN "resolved" ELSE "rejected"

deleteEvent ==
    /\ userOp("deleteEvent")
    /\ delPc = "idle"
    /\ IF existingEvent.exists
       THEN IF eventType = OWN /\ Len(existingEvent.attendees) > 0
            THEN LET updatedEvent ==
                         [existingEvent EXCEPT !.sequence = incrementSequence(existingEvent.sequence)]
                     cancel == cancelBcc \o cancelAddresses(existingEvent)
                 IN /\ cancelBcc' = cancel
                    /\ delLog' = Append(delLog, entry(0, "sendCancellation", "start",
                                                bccAddresses(cancel), updatedEvent))
                    /\ delPc' = "sendCancellation"
            ELSE /\ delLog' = Append(delLog, entry(0, "deleteEvent", "start", {}, existingEvent))
                 /\ delPc' = "deleteEvent"
                 /\ UNCHANGED cancelBcc
       ELSE /\ delLog' = Append(delLog, deleteSettled("resolved"))
            /\ UNCHANGED <<cancelBcc, delPc>>
    /\ UNCHANGED <<envVars, repeatVars, replyVars, wizard, existingEvent, selectedCalendar, inviteBcc, updateBcc, guestStatuses,
                   ownAttendee, confidential, organizer, alarmVars, timeVars, saveVars, log>>

\* the cancellation deleteEvent waits for has settled
deleteCancellationSent(ok) ==
    /\ delPc = "sendCancellation"
    /\ IF ok
       THEN /\ delLog' = delLog \o <<entry(0, "sendCancellation", "ok", {}, NoEvent),
                               entry(0, "deleteEvent", "start", {}, existingEvent)>>
            /\ delPc' = "deleteEvent"
       ELSE /\ delLog' = delLog \o <<entry(0, "sendCancellation", "fail", {}, NoEvent),
                               deleteSettled("rejected")>>
            /\ delPc' = "idle"
    /\ UNCHANGED <<vmVars, replyVars, wizard, saveVars, log, opVars>>

\* calendarModel.deleteEvent has settled: "ok", "notFound" (swallowed) or "fail"
eventDeleted(outcome) ==
    /\ delPc = "deleteEvent"
    /\ delLog' = delLog \o <<entry(0, "deleteEvent", outcome, {}, NoEvent),
                          deleteSettled(deleteSettles(outcome))>>
    /\ delPc' = "idle"
    /\ UNCHANGED <<vmVars, replyVars, wizard, saveVars, log, opVars>>

\* ------------------------------------------------- replyToEventInvitation
\* the calls of one user to replyToEventInvitation run one after the other
MaxReplies == 2
\* the invitations replied to: from an invitation file (no owner group, no
\* id), and stored in the private calendar with an alarm
ReplyEvents ==
    { timedEvent(<<att("a", ACCEPTED), att("me", NEEDS_ACTION), att("b", TENTATIVE)>>,
                 "a", NULL, FALSE, <<FALSE>>, <<>>),
      [timedEvent(<<att("a", ACCEPTED), att("me", NEEDS_ACTION)>>, "a", "priv", TRUE, <<FALSE>>, <<"5M">>)
          EXCEPT !.sequence = 2] }
\* the calendars of the user replying: with and without a private one
ReplyCalendars == {Calendars, SelectSeq(Calendars, LAMBDA c : c.shared)}
ReplyAttendees == {"me", "x"}
Decisions == {ACCEPTED, DECLINED, TENTATIVE}

findPrivateCalendar(calendarInfo) ==
    LET private == SelectSeq(calendarInfo, LAMBDA c : ~c.shared)
    IN IF Len(private) > 0 THEN private[1].id ELSE NULL
\* worker.addCalendar(""): the calendars loaded after it
addCalendar(calendarInfo) == <<[id |-> "new", shared |-> FALSE, write |-> TRUE]>> \o calendarInfo
getOrCreatePrivateCalendar(internal, calendarInfo) ==
    IF ~internal THEN NULL
    ELSE IF findPrivateCalendar(calendarInfo) /= NULL THEN findPrivateCalendar(calendarInfo)
    ELSE findPrivateCalendar(addCalendar(calendarInfo))

\* whom the distributor sends the response to
responseRecipients(ev) == {ev.organizer}
\* a call of replyToEventInvitation to a collaborator, or how one settled
replyEntry(kind, phase, ev, to, decision, alarmInfos) ==
    [kind |-> kind, phase |-> phase, event |-> ev, to |-> to, decision |-> decision,
     alarms |-> alarmInfos]
replySettled(kind, phase) == replyEntry(kind, phase, NoEvent, {}, NULL, <<>>)
replyFrame == UNCHANGED <<vmVars, saveVars, delVars, log, opVars, wizard>>

\* a change of replyClone that works on the event of the caller
replyInPlace(ev, i, decision) == [clone |-> ev, event |-> [ev EXCEPT !.attendees[i].status = decision,
                                                                      !.sequence = incrementSequence(@)]]
\* the clone with the decision and the next sequence, and the event passed in
replyClone(ev, i, decision) ==
    [clone |-> [ev EXCEPT !.attendees[i].status = decision, !.sequence = incrementSequence(@)],
     event |-> ev]

\* replyToEventInvitation up to the point where it returns the promise
replyToEventInvitation(attendee, decision) ==
    LET i == findIndex(inviteEvent.attendees, attendee)
        r == [reply EXCEPT !.call = @ + 1, !.attendee = attendee, !.decision = decision,
                           !.eventClone = NoEvent, !.foundAttendee = i, !.calendar = NULL,
                           !.error = NULL]
    IN /\ reply.call < MaxReplies
       /\ replyPc \in {"idle", "done", "failed"}
       /\ replyLog' = <<>>
       /\ IF i = 0
          THEN /\ reply' = [r EXCEPT !.error = "assertNotNull"]
               /\ replyPc' = "failed"
               /\ UNCHANGED inviteEvent
          ELSE /\ reply' = [r EXCEPT !.eventClone = replyClone(inviteEvent, i, decision).clone]
               /\ inviteEvent' = replyClone(inviteEvent, i, decision).event
               /\ replyPc' = "loading"
       /\ replyFrame

\* a change of replyLoaded that persists without waiting for the response
replyLoadedNoWait(ok) ==
    /\ replyPc = "loading"
    /\ ok
    /\ LET calendar == getOrCreatePrivateCalendar(reply.internal, reply.calendars)
       IN /\ reply' = [reply EXCEPT !.calendar = calendar]
          /\ replyLog' = replyLog \o
                <<replyEntry("sendResponse", "start", reply.eventClone,
                             responseRecipients(reply.eventClone), reply.decision, <<>>),
                  replyEntry("createEvent", "start", reply.eventClone, {}, NULL, <<>>)>>
          /\ replyPc' = "persist"
    /\ UNCHANGED inviteEvent
    /\ replyFrame
\* the calendar and the mailbox details are there, or one of them failed
replyLoaded(ok) ==
    /\ replyPc = "loading"
    /\ IF ok
       THEN LET calendar == getOrCreatePrivateCalendar(reply.internal, reply.calendars)
            IN /\ reply' = [reply EXCEPT !.calendar = calendar]
               /\ replyLog' = Append(replyLog,
                      replyEntry("sendResponse", "start", reply.eventClone,
                                 responseRecipients(reply.eventClone), reply.decision, <<>>))
               /\ replyPc' = "sendResponse"
       ELSE /\ reply' = [reply EXCEPT !.error = "error"]
            /\ replyLog' = Append(replyLog, replySettled("load", "fail"))
            /\ replyPc' = "failed"
    /\ UNCHANGED inviteEvent
    /\ replyFrame

\* a change of replyPersistence that takes no alarms along
replyPersistenceNoAlarms(ev, eventClone) ==
    IF ev.ownerGroup /= NULL
    THEN [pc |-> "persist", call |-> <<replyEntry("updateEvent", "start", eventClone, {}, NULL, <<>>)>>]
    ELSE [pc |-> "persist", call |-> <<replyEntry("createEvent", "start", eventClone, {}, NULL, <<>>)>>]
\* what follows the response for a user with a calendar: loadAlarms for an
\* event with an owner group, createEvent without alarms for one without
replyPersistence(ev, eventClone) ==
    IF ev.ownerGroup /= NULL
    THEN [pc |-> "loadAlarms", call |-> <<replyEntry("loadAlarms", "start", NoEvent, {}, NULL, ev.alarmInfos)>>]
    ELSE [pc |-> "persist", call |-> <<replyEntry("createEvent", "start", eventClone, {}, NULL, <<>>)>>]

\* sendResponse has settled: sent, failed with a UserError (shown in a
\* dialog, then the chain goes on), or failed with another error
responseSent(outcome) ==
    /\ replyPc = "sendResponse"
    /\ IF outcome = "fail"
       THEN /\ replyLog' = Append(replyLog, replySettled("sendResponse", "fail"))
            /\ replyPc' = "failed"
            /\ reply' = [reply EXCEPT !.error = "error"]
       ELSE LET lg == Append(replyLog, replySettled("sendResponse", outcome))
                next == replyPersistence(inviteEvent, reply.eventClone)
            IN /\ UNCHANGED reply
               /\ IF reply.calendar /= NULL
                  THEN replyLog' = lg \o next.call /\ replyPc' = next.pc
                  ELSE replyLog' = lg /\ replyPc' = "done"
    /\ UNCHANGED inviteEvent
    /\ replyFrame

\* loadAlarms has settled: updateEvent with the alarm infos of the alarms
replyAlarmsLoaded(ok) ==
    /\ replyPc = "loadAlarms"
    /\ IF ok
       THEN /\ replyLog' = replyLog \o
                   <<replySettled("loadAlarms", "ok"),
                     replyEntry("updateEvent", "start", reply.eventClone, {}, NULL, inviteEvent.alarmInfos)>>
            /\ replyPc' = "persist"
            /\ UNCHANGED reply
       ELSE /\ replyLog' = Append(replyLog, replySettled("loadAlarms", "fail"))
            /\ replyPc' = "failed"
            /\ reply' = [reply EXCEPT !.error = "error"]
    /\ UNCHANGED inviteEvent
    /\ replyFrame

\* createEvent or updateEvent has settled
replyPersisted(ok) ==
    /\ replyPc = "persist"
    /\ replyLog' = Append(replyLog, replySettled("persist", phaseOf(ok)))
    /\ replyPc' = IF ok THEN "done" ELSE "failed"
    /\ reply' = IF ok THEN reply ELSE [reply EXCEPT !.error = "error"]
    /\ UNCHANGED inviteEvent
    /\ replyFrame

\* a user replies to an invitation
InitReply ==
    /\ construct(scenario(NoEvent, "internal", FALSE))
    /\ idle
    /\ inviteEvent \in ReplyEvents
    /\ \E internal \in BOOLEAN, calendarInfo \in ReplyCalendars :
          reply = [NoReply EXCEPT !.internal = internal, !.calendars = calendarInfo]
    /\ replyPc = "idle"
    /\ replyLog = <<>>
    /\ noWizard
NextReply ==
    \/ \E attendee \in ReplyAttendees, decision \in Decisions : replyToEventInvitation(attendee, decision)
    \/ \E ok \in BOOLEAN : replyLoaded(ok)
    \/ \E outcome \in {"ok", "userError", "fail"} : responseSent(outcome)
    \/ \E ok \in BOOLEAN : replyAlarmsLoaded(ok)
    \/ \E ok \in BOOLEAN : replyPersisted(ok)

\* ------------------------------------------------------------------ Next
\* the steps of a saveAndSend and of a deleteEvent in flight
saveSteps ==
    \/ saveAndSendBusy
    \/ saveAndSend
    \/ saveBody
    \/ \E sendOutUpdate \in BOOLEAN : answerForUpdates(sendOutUpdate)
    \/ passwordCheck
    \/ \E send \in BOOLEAN : answerInsecurePassword(send)
    \/ \E ok \in BOOLEAN : inviteSent(ok)
    \/ \E ok \in BOOLEAN : cancellationSent(ok)
    \/ \E ok \in BOOLEAN : eventPersisted(ok)
    \/ \E ok \in BOOLEAN : updateSent(ok)
deleteSteps ==
    \/ deleteEvent
    \/ \E ok \in BOOLEAN : deleteCancellationSent(ok)
    \/ \E outcome \in {"ok", "notFound", "fail"} : eventDeleted(outcome)

\* guests, organizer and attendance are edited, the event is saved or deleted
NextGuests ==
    \/ \E mailAddress \in Addresses : \E pw \in ContactPasswords(mailAddress) : addAttendee(mailAddress, pw)
    \/ \E i \in 1..Len(attendees) : removeAttendee(attendees[i].address)
    \/ \E i \in 1..Len(possibleOrganizers) : setOrganizer(possibleOrganizers[i])
    \/ \E going \in GoingInputs : selectGoing(going)
    \/ saveSteps
    \/ deleteSteps

\* guests are added, the end of the event is edited, the event is saved
NextTimes ==
    \/ \E mailAddress \in Addresses : \E pw \in ContactPasswords(mailAddress) : addAttendee(mailAddress, pw)
    \/ \E value \in TimeInputs : onEndTimeSelected(value)
    \/ \E date \in DateInputs : onEndDateSelected(date)
    \/ \E value \in BOOLEAN : setAllDay(value)
    \/ saveAndSendBusy
    \/ saveAndSend
    \/ saveBody
    \/ \E sendOutUpdate \in BOOLEAN : answerForUpdates(sendOutUpdate)
    \/ passwordCheck
    \/ \E send \in BOOLEAN : answerInsecurePassword(send)
    \/ \E ok \in BOOLEAN : inviteSent(ok)
    \/ \E ok \in BOOLEAN : eventPersisted(ok)
    \/ \E ok \in BOOLEAN : updateSent(ok)

\* the other fields of the form are edited, the alarms are loaded
NextEdit ==
    \/ \E trigger \in Triggers : addAlarm(trigger)
    \/ \E i \in 1..Len(alarms), trigger \in {NULL, "1H"} : changeAlarm(alarms[i].alarmIdentifier, trigger)
    \/ alarmsLoaded
    \/ \E i \in 1..Len(getAvailableCalendars) : selectCalendar(getAvailableCalendars[i])
    \/ \E value \in BOOLEAN : setConfidential(value)
    \/ \E value \in TimeInputs : onStartTimeSelected(value)

\* the repeat rule and the end time are edited, the event is saved
NextRepeat ==
    \/ \E repeatPeriod \in RepeatPeriodInputs : onRepeatPeriodSelected(repeatPeriod)
    \/ \E endType \in EndTypeInputs : onRepeatEndTypeChanged(endType)
    \/ \E endValue \in OccurencesInputs : onEndOccurencesSelected(endValue)
    \/ \E date \in RepeatEndDateInputs : onRepeatEndDateSelected(date)
    \/ \E interval \in IntervalInputs : onRepeatIntervalChanged(interval)
    \/ \E value \in RepeatTimeInputs : onEndTimeSelected(value)
    \/ saveAndSend
    \/ saveBody
    \/ passwordCheck
    \/ \E ok \in BOOLEAN : eventPersisted(ok)

Spec == Init /\ [][NextGuests]_vars
SpecTimes == Init /\ [][NextTimes]_vars
SpecEdit == Init /\ [][NextEdit]_vars
SpecRepeat == InitRepeat /\ [][NextRepeat]_vars
SpecReply == InitReply /\ [][NextReply]_vars

\* ------------------------------------------------------------ event type
\* existing events by owner group (none, own calendar, shared with and
\* without write capability, a calendar the user does not have) and organizer
TypeGroups == {NULL, "priv", "rw", "ro", "gone"}
TypeOrganizers == {NULL, "me", "a"}
typeEvent(grp, org) ==
    timedEvent(IF org = NULL THEN <<>> ELSE <<att("a", ACCEPTED), att("me", NEEDS_ACTION)>>,
               org, grp, grp /= NULL, <<FALSE>>, <<>>)
TypeScenarios ==
    {scenario(NoEvent, "internal", FALSE)}
        \cup {scenario(typeEvent(grp, org), "internal", FALSE) : grp \in TypeGroups, org \in TypeOrganizers}
        \cup {scenario(typeEvent(grp, "a"), "external", FALSE) : grp \in {NULL, "priv"}}
InitType == (\E sc \in TypeScenarios : construct(sc)) /\ idle /\ noReply
\* a calendar is picked, guests are removed, the event is saved or deleted
NextType ==
    \/ \E i \in 1..Len(getAvailableCalendars) : selectCalendar(getAvailableCalendars[i])
    \/ \E i \in 1..Len(attendees) : removeAttendee(attendees[i].address)
    \/ \E going \in GoingInputs : selectGoing(going)
    \/ saveAndSend
    \/ saveBody
    \/ \E sendOutUpdate \in BOOLEAN : answerForUpdates(sendOutUpdate)
    \/ passwordCheck
    \/ \E ok \in BOOLEAN : cancellationSent(ok)
    \/ \E ok \in BOOLEAN : eventPersisted(ok)
    \/ \E ok \in BOOLEAN : updateSent(ok)
    \/ deleteSteps
SpecType == InitType /\ [][NextType]_vars

\* ----------------------------------------------------- CalendarEventPopup
\* viewModel.readOnly as the popup reads it: CalendarEventViewModel has no
\* field or getter of that name, so the read gives undefined, which is falsy
readOnly == FALSE
\* the popup and its mobile dialog show the delete button
deleteOffered == ~readOnly

\* -------------------------------------------------------- AddDomainWizard
\* the pages of the wizard, in order
wizardPages == <<"EnterDomainPage", "VerifyOwnershipPage", "AddEmailAddressesPage", "VerifyDnsRecordsPage">>
\* the characters and the domains the wizard is opened with
DomainChars == {"a", "b", "."}
Domains == UNION {[1..n -> DomainChars] : n \in 0..MaxDomainLen}
\* WizardDialogAttrs.goToNextPageOrCloseWizard: the page after the current
\* one, or the end of the wizard on the last page
goToNextPageOrCloseWizard(w) ==
    IF w.closed THEN w
    ELSE IF w.currentPage = Len(wizardPages) THEN [w EXCEPT !.closed = TRUE]
    ELSE [w EXCEPT !.currentPage = @ + 1, !.advances = @ + 1]
\* currentPage.attrs.nextAction(false): the call, its promise pending
nextAction(w) == [w EXCEPT !.actionsRun = Append(@, w.currentPage), !.pc = "nextAction"]

\* showAddDomainWizard, up to its return
showAddDomainWizard ==
    /\ wizard.pc = "new"
    /\ LET shown == [wizard EXCEPT !.pc = "shown"]
           skipped == goToNextPageOrCloseWizard(goToNextPageOrCloseWizard(shown))
       IN wizard' = IF Len(wizard.domain) > 0
                    THEN IF ~skipped.closed THEN nextAction(skipped) ELSE skipped
                    ELSE shown
    /\ UNCHANGED <<vmVars, saveVars, delVars, log, opVars, replyVars>>

\* a then-callback that moves on whatever nextAction reported
nextActionThenAlways(w, ready) == goToNextPageOrCloseWizard(w)
\* the then-callback of nextAction
nextActionThen(w, ready) == IF ready THEN goToNextPageOrCloseWizard(w) ELSE w
\* the promise of nextAction settles
nextActionSettled ==
    /\ wizard.pc = "nextAction"
    /\ \/ \E ready \in BOOLEAN :
             wizard' = [nextActionThen(wizard, ready) EXCEPT !.pc = "settled", !.ready = <<ready>>]
       \/ \* rejected: the then-callback does not run
          wizard' = [wizard EXCEPT !.pc = "rejected"]
    /\ UNCHANGED <<vmVars, saveVars, delVars, log, opVars, replyVars>>

InitWizard ==
    /\ construct(scenario(NoEvent, "internal", FALSE))
    /\ idle
    /\ inviteEvent = NoEvent /\ reply = NoReply /\ replyPc = "idle" /\ replyLog = <<>>
    /\ \E domain \in Domains : wizard = createWizardDialog(domain)
NextWizard ==
    \/ showAddDomainWizard
    \/ nextActionSettled
SpecWizard == InitWizard /\ [][NextWizard]_vars

\* ------------------------------------------------------------ start time
\* times of day the user picks as start or end: early, late and not a time
StartTimeInputs == {<<8, 30>>, <<9, 15>>, <<23, 45>>, <<24, 0>>}
\* the start and the end of the event are edited
NextStart ==
    \/ \E value \in StartTimeInputs : onStartTimeSelected(value)
    \/ \E value \in StartTimeInputs : onEndTimeSelected(value)
    \/ \E date \in DateInputs : onEndDateSelected(date)
SpecStart == Init /\ [][NextStart]_vars

\* ------------------------------------------------------- repeated saves
\* a new event, or a confidential event of a shared calendar with write
\* capability, is given guests and saved, and after that once more
InviteScenarios ==
    { scenario(NoEvent, "internal", FALSE),
      scenario(timedEvent(<<>>, NULL, "rw", TRUE, <<TRUE>>, <<>>), "internal", FALSE) }
InitInvite == (\E sc \in InviteScenarios : construct(sc)) /\ idle /\ noReply
saveAndSendAgain == saveAndSendUpTo(MaxSaves + 1)
NextInvite ==
    \/ \E mailAddress \in Addresses : \E pw \in ContactPasswords(mailAddress) : addAttendee(mailAddress, pw)
    \/ saveAndSendAgain
    \/ saveBody
    \/ passwordCheck
    \/ \E send \in BOOLEAN : answerInsecurePassword(send)
    \/ \E ok \in BOOLEAN : inviteSent(ok)
    \/ \E ok \in BOOLEAN : eventPersisted(ok)
SpecInvite == InitInvite /\ [][NextInvite]_vars

\* ================================================================ claims
starts(kind) == {i \in 1..Len(log) : log[i].kind = kind /\ log[i].phase = "start"}
persistStarts == starts("createEvent") \cup starts("updateEvent")
completedBetween(kind, i, j) ==
    \E k \in (i + 1)..(j - 1) : log[k].kind = kind /\ log[k].phase = "ok"
\* every call of the first kind has completed before any call of the second starts
inOrder(first, kind, second) ==
    \A i \in first : \A j \in second : i < j /\ completedBetween(kind, i, j)
\* the step in which the body of saveAndSend runs
bodyStep == pc = "body" /\ pc' /= "body"
timesParse == allDay \/ (parseTime(startTime) /= <<>> /\ parseTime(endTime) /= <<>>)
UserErrors == {"startAfterEnd_label", "timeFormatInvalid_msg", "noPreSharedPassword_msg"}
otherAddresses == Addresses \ Range(mailAddresses)
addressesOf(atts) == {atts[i].address : i \in 1..Len(atts)}

\* C1: a saveAndSend whose computed end instant is not after its computed
\* start instant settles to the error startAfterEnd_label, and it has called
\* neither createEvent nor updateEvent nor any of the four dispatches.
C1_TimeRangeRejected ==
    [][(bodyStep /\ timesParse /\ computedEnd <= computedStart)
          => (/\ calls'[sv.call] = "startAfterEnd_label"
              /\ pc' = "idle"
              /\ ~processing'
              /\ log' = <<>>)]_vars
C1_Witness ==
    /\ \E i \in 1..Len(calls) : calls[i] = "startAfterEnd_label"
    /\ pc = "idle"
    /\ log = <<>>
    /\ Len(attendees) > 1

\* C2 (as claimed): a saveAndSend of a confidential event that has an
\* external attendee without a pre-shared password settles to a user error
\* in its body, before any prompt, dispatch or persistence.
C2_MissingPasswordRejected ==
    [][(/\ bodyStep
        /\ confidential
        /\ \E i \in 1..Len(attendees) :
              attendees[i].type = EXTERNAL /\ attendees[i].password = NoPassword)
          => (calls'[sv.call] \in UserErrors /\ log' = <<>>)]_vars

\* C3: a saveAndSend that arrives while a save is in flight settles to false
\* and changes nothing else: no call to a collaborator, no prompt, no change
\* of the view-model, of the busy flag or of the save in flight.
C3_BusySaveDropped ==
    [][(processing /\ (Len(calls') > Len(calls) \/ Len(droppedCalls') > Len(droppedCalls)))
          => (/\ droppedCalls' = Append(droppedCalls, "false")
              /\ UNCHANGED <<vmVars, processing, pc, sv, calls, log, delVars>>)]_vars
C3_Witness ==
    /\ Len(droppedCalls) > 0
    /\ droppedCalls[Len(droppedCalls)] = "false"
    /\ processing
    /\ pc = "askForUpdates"

\* C4: in a save of an event the user owns, the invite has been sent before
\* the cancellation starts, both have been sent before the event is
\* persisted, and the update starts only after the event was persisted.
C4_SideEffectOrder ==
    eventType = OWN =>
        /\ inOrder(starts("sendInvite"), "sendInvite", starts("sendCancellation"))
        /\ inOrder(starts("sendInvite"), "sendInvite", persistStarts)
        /\ inOrder(starts("sendCancellation"), "sendCancellation", persistStarts)
        /\ inOrder(persistStarts, "persist", starts("sendUpdate"))
        /\ \A u \in starts("sendUpdate") :
              \E k \in 1..(u - 1) : log[k].kind = "persist" /\ log[k].phase = "ok"
C4_Witness ==
    /\ eventType = OWN
    /\ pc = "idle"
    /\ Len(calls) > 0
    /\ calls[Len(calls)] = "true"
    /\ starts("sendInvite") /= {}
    /\ starts("sendCancellation") /= {}
    /\ persistStarts /= {}
    /\ starts("sendUpdate") /= {}

\* C5: a save dispatches an update only after the user confirmed the
\* askForUpdates prompt and only if a guest of the original event other than
\* the user is on the saved event; after a declined prompt it dispatches none.
C5_UpdateOnlyWhenConfirmed ==
    /\ \A u \in starts("sendUpdate") :
          /\ \E j \in 1..(u - 1) : log[j].kind = "askForUpdates" /\ log[j].phase = "yes"
          /\ \E a \in otherAddresses :
                /\ a \in addressesOf(existingEvent.attendees)
                /\ a \in addressesOf(log[u].event.attendees)
    /\ (\E j \in 1..Len(log) : log[j].kind = "askForUpdates" /\ log[j].phase = "no")
          => starts("sendUpdate") = {}
C5_Witness ==
    /\ starts("sendUpdate") /= {}
    /\ \E j \in 1..Len(log) : log[j].kind = "askForUpdates" /\ log[j].phase = "yes"

\* C6 (as claimed): on a view-model of an existing own event on which only
\* addAttendee and removeAttendee have changed the recipients, an address of
\* somebody else that is on the original and the current attendee list is a
\* recipient of the update channel only, one on the current list only of the
\* invite channel only, one on the original list only of the cancel channel only.
C6_RecipientDiff ==
    (eventType = OWN /\ existingEvent.exists /\ delLog = <<>>) =>
        \A a \in otherAddresses :
            LET original == a \in addressesOf(existingEvent.attendees)
                current == a \in addressesOf(attendees)
                invite == a \in bccAddresses(inviteBcc)
                update == a \in bccAddresses(updateBcc)
                cancel == a \in bccAddresses(cancelBcc)
            IN /\ (original /\ current) => (update /\ ~invite /\ ~cancel)
               /\ (~original /\ current) => (invite /\ ~update /\ ~cancel)
               /\ (original /\ ~current) => (cancel /\ ~invite /\ ~update)

\* C7 (as claimed): no address of the user is a recipient of the invite,
\* update or cancel channel.
C7_OwnAddressNeverNotified ==
    \A a \in Range(mailAddresses) :
        a \notin bccAddresses(inviteBcc) \cup bccAddresses(updateBcc) \cup bccAddresses(cancelBcc)

\* C8 (as claimed): while canModifyGuests() is false, addAttendee and
\* removeAttendee change neither the attendee list nor the guest statuses
\* nor the recipients of the three channels.
C8_GuestsGated ==
    [][(ops' = ops + 1 /\ lastOp' \in {"addAttendee", "removeAttendee"} /\ ~canModifyGuests)
          => (UNCHANGED <<inviteBcc, updateBcc, cancelBcc, guestStatuses>> /\ attendees' = attendees)]_vars

\* C9: while canModifyOrganizer() is false setOrganizer changes neither the
\* organizer nor the own attendee; while canModifyOwnAttendance() is false
\* selectGoing changes neither the own attendee nor a guest status.
C9_OrganizerAndAttendanceGated ==
    [][/\ (ops' = ops + 1 /\ lastOp' = "setOrganizer" /\ ~canModifyOrganizer)
             => UNCHANGED <<organizer, ownAttendee>>
       /\ (ops' = ops + 1 /\ lastOp' = "selectGoing" /\ ~canModifyOwnAttendance)
             => UNCHANGED <<ownAttendee, guestStatuses>>]_vars
C9_Witness ==
    /\ lastOp = "setOrganizer"
    /\ ~canModifyOrganizer
    /\ ~canModifyOwnAttendance
    /\ organizer /= ownAttendee

\* C10 (as claimed): while canModifyAlarms() is false, addAlarm and
\* changeAlarm leave the alarm list unchanged.
C10_AlarmsGated ==
    [][(ops' = ops + 1 /\ lastOp' \in {"addAlarm", "changeAlarm"} /\ ~canModifyAlarms)
          => alarms' = alarms]_vars

\* C11 (as claimed): no step of saveAndSend or deleteEvent changes a field of
\* existingEvent, the event the view-model was constructed from: not the
\* status of an attendee and not the sequence counter.
C11_ExistingEventNeverMutated ==
    [][existingEvent' = existingEvent]_vars

\* C12: on a view-model of an existing event, every event a saveAndSend
\* hands to createEvent, updateEvent or a notification carries the sequence
\* counter of the existing event plus one.
C12_SequenceIncremented ==
    existingEvent.exists =>
        \A i \in 1..Len(log) :
            log[i].event.exists => log[i].event.sequence = existingEvent.sequence + 1
C12_Witness ==
    /\ existingEvent.exists
    /\ existingEvent.sequence = 2
    /\ pc = "idle"
    /\ Len(calls) > 0
    /\ calls[Len(calls)] = "true"
    /\ \E i \in starts("updateEvent") : log[i].event.sequence = 3
    /\ \E i \in starts("sendUpdate") : log[i].event.sequence = 3

\* C13 (as claimed): when deleteEvent sends its cancellation after a
\* saveAndSend of the same view-model has succeeded, the cancellation carries
\* a sequence counter strictly greater than the one of the revision that
\* save persisted.
C13_SequenceStrictlyGrows ==
    [][(/\ Len(delLog') > Len(delLog)
        /\ delLog'[Len(delLog')].kind = "sendCancellation"
        /\ delLog'[Len(delLog')].phase = "start"
        /\ pc = "idle"
        /\ Len(calls) > 0
        /\ calls[Len(calls)] = "true")
          => \A i \in persistStarts :
                delLog'[Len(delLog')].event.sequence > log[i].event.sequence]_vars

\* the body of saveAndSend gets as far as building the repeat rule
bodyBuildsRule ==
    /\ bodyStep
    /\ timesParse
    /\ computedEnd > computedStart
    /\ repeat /= <<>>
\* the day in the zone of the date chosen as the end of the repetition
chosenEndDay == dayInZone(Number(repeat[1].endValue))
\* the start of the event being saved, as the form shows it
resolvedStart == IF allDay THEN getStartOfDayWithZone(startDate) ELSE computedStart
persistedRules ==
    {log[i].event.repeatRule[1] : i \in {j \in persistStarts : log[j].event.repeatRule /= <<>>}}

\* C14: a save with repeat end type Count whose count is NaN or below one
\* builds a rule with end type Never and raises no error; with a count of one
\* or more it builds a rule with end type Count and that count as end value.
C14_CountDegradesToNever ==
    [][(bodyBuildsRule /\ repeat[1].endType = Count)
          => LET count == repeat[1].endValue
                 rule == sv'.newEvent.repeatRule[1]
             IN /\ sv'.newEvent.repeatRule /= <<>>
                /\ calls'[sv.call] = "pending"
                /\ IF count = NaN \/ count[1] < 1
                   THEN rule.endType = Never
                   ELSE rule.endType = Count /\ rule.endValue = count]_vars
C14_Witness ==
    /\ repeat /= <<>>
    /\ repeat[1].endType = Count
    /\ repeat[1].endValue \in {NaN, num(0)}
    /\ pc = "idle"
    /\ calls = <<"true">>
    /\ \E rule \in persistedRules : rule.endType = Never

\* C15 (as claimed): a save with repeat end type UntilDate whose end boundary,
\* the start of the day after the chosen date in the zone, is earlier than or
\* equal to the start of the event settles to a user error and has called no
\* collaborator.
C15_RepeatEndNotAfterStartRejected ==
    [][(/\ bodyBuildsRule
        /\ repeat[1].endType = UntilDate
        /\ (chosenEndDay + 1) * DAY - Zone <= resolvedStart)
          => (calls'[sv.call] \in UserErrors /\ pc' = "idle" /\ log' = <<>>)]_vars

\* C16: a save with repeat end type UntilDate and chosen date D gives the rule
\* the end value of UTC midnight of D+1 when the event is all day, and of the
\* start of day D+1 in the zone when it is not.
C16_UntilDateBoundary ==
    [][(bodyBuildsRule /\ repeat[1].endType = UntilDate /\ sv'.newEvent.exists)
          => /\ sv'.newEvent.repeatRule /= <<>>
             /\ sv'.newEvent.repeatRule[1].endType = UntilDate
             /\ sv'.newEvent.repeatRule[1].endValue =
                   num(IF allDay THEN (chosenEndDay + 1) * DAY ELSE (chosenEndDay + 1) * DAY - Zone)]_vars
C16_Witness ==
    /\ allDay
    /\ repeat /= <<>>
    /\ repeat[1].endType = UntilDate
    /\ chosenEndDay = 0
    /\ pc = "idle"
    /\ calls = <<"true">>
    /\ \E rule \in persistedRules : rule.endType = UntilDate /\ rule.endValue = num(DAY)

\* C17 (as claimed): the event a save builds with repeat end type UntilDate
\* and chosen date D, read back by _applyValuesFromExistingEvent in the same
\* zone, gives a repeat end value on the same day D, and building the rule
\* again from the value read back gives the same rule.
C17_RepeatRuleRoundTrip ==
    [][(bodyBuildsRule /\ repeat[1].endType = UntilDate /\ sv'.newEvent.exists)
          => LET ev == sv'.newEvent
                 back == repeatOf(ev)
             IN /\ back /= <<>>
                /\ back[1].endType = UntilDate
                /\ dayInZone(Number(back[1].endValue)) = chosenEndDay
                /\ createRepeatRuleOf(ev, back[1], isAllDayEvent(ev)).rule = ev.repeatRule[1]]_vars

replyStarts(kinds) ==
    {k \in 1..Len(replyLog) : replyLog[k].kind \in kinds /\ replyLog[k].phase = "start"}
responses == replyStarts({"sendResponse"})
replyPersists == replyStarts({"createEvent", "updateEvent"})
\* the call of replyToEventInvitation has got past loading calendar and mailbox
replyUnderWay == replyPc \in {"sendResponse", "loadAlarms", "persist", "done"}

\* C18: replyToEventInvitation leaves the event of the caller as it is, and
\* the event it hands to its collaborators is that event with the status of
\* the target attendee set to the decision and the sequence counter raised by
\* one, all other attendees and fields being equal.
C18_ReplyWorksOnClone ==
    [][/\ inviteEvent' = inviteEvent
       /\ \A k \in 1..Len(replyLog') :
             replyLog'[k].event.exists =>
                LET i == reply'.foundAttendee
                IN /\ inviteEvent.attendees[i].address = reply'.attendee
                   /\ replyLog'[k].event =
                         [inviteEvent EXCEPT !.attendees[i].status = reply'.decision,
                                             !.sequence = inviteEvent.sequence + 1]]_vars
C18_Witness ==
    /\ replyPc = "done"
    /\ reply.decision = DECLINED
    /\ Len(inviteEvent.attendees) = 3
    /\ inviteEvent.attendees[2].status = NEEDS_ACTION
    /\ \E k \in replyPersists :
          /\ replyLog[k].event.attendees[2].status = DECLINED
          /\ replyLog[k].event.attendees[3] = inviteEvent.attendees[3]

\* C19: a call of replyToEventInvitation never sends more than one response
\* and has sent exactly one once calendar and mailbox are loaded; the response
\* carries the clone and the decision and goes to the organizer; createEvent
\* or updateEvent is called only after the response has settled.
C19_OneResponseBeforePersisting ==
    /\ Cardinality(responses) <= 1
    /\ replyUnderWay => Cardinality(responses) = 1
    /\ \A k \in responses :
          /\ replyLog[k].event = reply.eventClone
          /\ replyLog[k].event.attendees[reply.foundAttendee].status = reply.decision
          /\ replyLog[k].decision = reply.decision
          /\ replyLog[k].to = {inviteEvent.organizer}
    /\ \A p \in replyPersists :
          \E k \in responses : \E j \in (k + 1)..(p - 1) :
              replyLog[j].kind = "sendResponse" /\ replyLog[j].phase \in {"ok", "userError"}
C19_Witness ==
    /\ replyPc = "done"
    /\ reply.call = 2
    /\ Cardinality(responses) = 1
    /\ replyPersists /= {}
    /\ \E j \in 1..Len(replyLog) : replyLog[j].kind = "sendResponse" /\ replyLog[j].phase = "userError"

\* C20: after the response has settled, a reply for a user with a calendar
\* calls updateEvent with exactly the alarms of the event when the event has
\* an owner group, and createEvent without alarms when it has none; a reply
\* that completes has called exactly one of the two, and no reply calls both.
C20_ReplyPersistenceBranches ==
    /\ Cardinality(replyPersists) <= 1
    /\ \A p \in replyPersists :
          /\ reply.calendar /= NULL
          /\ replyLog[p].event = reply.eventClone
          /\ IF inviteEvent.ownerGroup /= NULL
             THEN replyLog[p].kind = "updateEvent" /\ replyLog[p].alarms = inviteEvent.alarmInfos
             ELSE replyLog[p].kind = "createEvent" /\ replyLog[p].alarms = <<>>
    /\ (replyPc = "done" /\ reply.internal) => Cardinality(replyPersists) = 1
    /\ (replyPc = "done" /\ ~reply.internal) => replyPersists = {}
C20_Witness ==
    /\ replyPc = "done"
    /\ inviteEvent.ownerGroup /= NULL
    /\ findPrivateCalendar(reply.calendars) /= NULL
    /\ \E p \in replyPersists : replyLog[p].kind = "updateEvent" /\ replyLog[p].alarms = <<"5M">>

\* C21: whenever the response-send step of replyToEventInvitation fails, with
\* a UserError or with any other error, the failure is caught and shown as a
\* message (the chain does not reject) and, for a user with a calendar, the
\* persistence of the updated event (loadAlarms and updateEvent, or
\* createEvent) is started after it.
C21_ResponseFailureStillPersists ==
    \A j \in 1..Len(replyLog) :
        (replyLog[j].kind = "sendResponse" /\ replyLog[j].phase \in {"userError", "fail"}) =>
            /\ reply.error = NULL
            /\ reply.calendar /= NULL =>
                  \E p \in (j + 1)..Len(replyLog) :
                      /\ replyLog[p].kind \in {"loadAlarms", "createEvent", "updateEvent"}
                      /\ replyLog[p].phase = "start"

\* the notifications of the save in flight that failed
failedNotifications ==
    {j \in 1..Len(log) : /\ log[j].kind \in {"sendInvite", "sendCancellation", "sendUpdate"}
                         /\ log[j].phase = "fail"}

\* C22: when sending an invite, a cancellation or an update fails during
\* saveAndSend, the save does not reject because of it, and once the save has
\* settled the event of a non-external user has been handed to createEvent
\* or updateEvent.
C22_NotificationFailureNotFatal ==
    failedNotifications /= {} =>
        /\ calls[sv.call] /= "error"
        /\ (pc = "idle" /\ accountType /= "external") => persistStarts /= {}

\* C23: when calendarModel.deleteEvent reports not-found, the promise of
\* deleteEvent resolves; and a deleteEvent on a view-model without an existing
\* event resolves at once, calling neither sendCancellation nor
\* calendarModel.deleteEvent and adding no cancel recipient.
C23_DeleteIdempotent ==
    [][/\ \A j \in 1..Len(delLog') :
             delLog'[j].phase = "notFound" =>
                 j < Len(delLog') /\ delLog'[j + 1].phase = "resolved"
       /\ (ops' = ops + 1 /\ lastOp' = "deleteEvent" /\ ~existingEvent.exists) =>
             /\ Len(delLog') = Len(delLog) + 1
             /\ delLog'[Len(delLog')].phase = "resolved"
             /\ delPc' = "idle"
             /\ cancelBcc' = cancelBcc]_vars
C23_Witness ==
    /\ delPc = "idle"
    /\ existingEvent.exists
    /\ Len(delLog) >= 3
    /\ delLog[Len(delLog) - 1].kind = "deleteEvent"
    /\ delLog[Len(delLog) - 1].phase = "notFound"
    /\ delLog[Len(delLog)].phase = "resolved"

\* C24: the busy flag is set exactly while a saveAndSend is in flight: once a
\* save that set it has settled, be it with true, with false or with an
\* error, the flag is false again, so that the next saveAndSend is not dropped.
C24_BusyFlagReleased ==
    /\ processing <=> (\E k \in 1..Len(calls) : calls[k] = "pending")
    /\ processing <=> (pc /= "idle")
C24_Witness ==
    /\ ~processing
    /\ \E k \in 1..Len(calls) : calls[k] = "error"
    /\ \E j \in 1..Len(log) : log[j].kind = "createEvent" /\ log[j].phase = "start"

\* the calendar of the existing event is one the user has
ownerCalendarKnown ==
    /\ existingEvent.ownerGroup /= NULL
    /\ \E i \in 1..Len(calendars) : calendars[i].id = existingEvent.ownerGroup
ownerCalendar == CHOOSE c \in Range(calendars) : c.id = existingEvent.ownerGroup
organizerIsUser ==
    existingEvent.organizer = NULL \/ existingEvent.organizer \in Range(mailAddresses)

\* C25: the event type of a view-model is: own without an existing event;
\* for an existing event in a shared calendar, shared-read-write with write
\* capability on the group and shared-read-only without; for one in a
\* calendar of the user, own if the organizer is absent or an address of the
\* user and invite otherwise; invite when the owner group is absent or not
\* among the calendars.
C25_EventTypeClassification ==
    /\ ~existingEvent.exists => eventType = OWN
    /\ (existingEvent.exists /\ ~ownerCalendarKnown) => eventType = INVITE
    /\ (existingEvent.exists /\ ownerCalendarKnown) =>
          IF ownerCalendar.shared
          THEN eventType = (IF ownerCalendar.write THEN SHARED_RW ELSE SHARED_RO)
          ELSE eventType = (IF organizerIsUser THEN OWN ELSE INVITE)
C25_Witness ==
    /\ existingEvent.exists
    /\ existingEvent.ownerGroup = "gone"
    /\ organizerIsUser
    /\ eventType = INVITE
    /\ calls /= <<>>

\* C26: no operation on a view-model changes the event type it got when it
\* was constructed.
C26_EventTypeNeverChanges == [][eventType' = eventType]_vars
C26_Witness ==
    /\ eventType = SHARED_RW
    /\ lastOp = "selectCalendar"
    /\ selectedCalendar = "priv"
    /\ \E k \in 1..Len(calls) : calls[k] = "true"

\* C27: on a view-model on which deleteEvent has not been called, the
\* recipients of the invite, update and cancel channels are pairwise disjoint
\* in every state, also after an attendee of the existing event was removed
\* and the same address added again.
C27_ChannelsDisjoint ==
    delLog = <<>> =>
        /\ bccAddresses(inviteBcc) \cap bccAddresses(cancelBcc) = {}
        /\ bccAddresses(updateBcc) \cap bccAddresses(cancelBcc) = {}
        /\ bccAddresses(inviteBcc) \cap bccAddresses(updateBcc) = {}

\* the recipients of the invite channel an earlier save has invited: only the
\* continuation of _sendInvite gives a recipient of that channel the status
\* needs-action when no operation but addAttendee and saveAndSend is used
invitedBefore ==
    {a \in bccAddresses(inviteBcc) : a \in DOMAIN guestStatuses /\ guestStatuses[a] = NEEDS_ACTION}

\* C28: on a view-model of a new or shared event on which guests are added and that is
\* saved more than once, no invite that a save dispatches has among its
\* recipients an address that an earlier save has invited already.
C28_InvitedAtMostOnce ==
    [][(/\ Len(log') = Len(log) + 1
        /\ log'[Len(log')].kind = "sendInvite"
        /\ log'[Len(log')].phase = "start")
          => log'[Len(log')].to \cap invitedBefore = {}]_vars

Notifications == {"sendInvite", "sendCancellation", "sendUpdate", "sendResponse"}
\* the notifications a step of the save dispatches
dispatchedBy(before, after) ==
    {j \in (Len(before) + 1)..Len(after) : after[j].kind \in Notifications /\ after[j].phase = "start"}
insecureConfirmed(lg) ==
    \E j \in 1..Len(lg) : lg[j].kind = "askInsecurePassword" /\ lg[j].phase = "yes"

\* C29: a step of saveAndSend that decides about sending (its body, the
\* answer to askForUpdates, the password check, the answer to
\* askInsecurePassword), taken in a state where hasInsecurePasswords holds,
\* dispatches no invite, cancellation, update or response unless the user
\* has confirmed in askInsecurePassword; also when the user declines to
\* send updates.
C29_InsecurePasswordsConfirmed ==
    [][(/\ pc \in {"body", "askForUpdates", "passwordCheck", "askInsecurePassword"}
        /\ hasInsecurePasswords
        /\ Len(log') >= Len(log)
        /\ dispatchedBy(log, log') /= {})
          => insecureConfirmed(log')]_vars

\* the save the log belongs to has settled with the given result
savedWith(result) == sv.call \in 1..Len(calls) /\ calls[sv.call] = result
persistedInCall ==
    \E j \in persistStarts : \E k \in (j + 1)..Len(log) : log[k].kind = "persist" /\ log[k].phase = "ok"

\* C30: a saveAndSend of a non-external user that resolves to true has
\* persisted the event with createEvent or updateEvent in that call; and a
\* save in which the user declined the insecure-password prompt resolves to
\* false and calls neither, whatever the event type.
C30_TrueOnlyWhenPersisted ==
    /\ (accountType /= "external" /\ savedWith("true")) => persistedInCall
    /\ (\E j \in 1..Len(log) : log[j].kind = "askInsecurePassword" /\ log[j].phase = "no") =>
          /\ persistStarts = {}
          /\ pc = "idle" => savedWith("false")

\* C31: in every state the attendee list of the view-model has no two
\* entries with the same mail address.
C31_AttendeesDistinct ==
    \A i \in 1..Len(attendees) : \A j \in 1..Len(attendees) :
        attendees[i].address = attendees[j].address => i = j

\* C32: in every state of a view-model whose event type is shared-read-only
\* or shared-read-write, canModifyGuests() is false, whichever of the
\* available calendars the user has selected.
C32_SharedGuestsNeverModifiable ==
    eventType \in {SHARED_RO, SHARED_RW} => ~canModifyGuests

\* the addresses of the attendees of the existing event that are not the user's
nonOwnAttendees == addressesOf(existingEvent.attendees) \ Range(mailAddresses)
ownedWithAttendees == eventType = OWN /\ Len(existingEvent.attendees) > 0

\* C33: deleteEvent on an own event with at least one attendee sends a
\* cancellation, with a clone of the event whose sequence is one higher, to
\* the attendees that are not the user, and calls calendarModel.deleteEvent
\* only after that cancellation was sent successfully; for any other event
\* type, or without attendees, it calls calendarModel.deleteEvent without a
\* cancellation.
C33_CancellationBeforeDelete ==
    \A j \in 1..Len(delLog) :
        /\ (delLog[j].kind = "sendCancellation" /\ delLog[j].phase = "start") =>
              /\ ownedWithAttendees
              /\ delLog[j].event = [existingEvent EXCEPT !.sequence = existingEvent.sequence + 1]
              /\ delLog[j].to = nonOwnAttendees
        /\ (delLog[j].kind = "deleteEvent" /\ delLog[j].phase = "start") =>
              IF ownedWithAttendees
              THEN j > 1 /\ delLog[j - 1].kind = "sendCancellation" /\ delLog[j - 1].phase = "ok"
              ELSE j = 1 \/ delLog[j - 1].kind /= "sendCancellation"

responseStarts(lg) == {j \in 1..Len(lg) : lg[j].kind = "sendResponse" /\ lg[j].phase = "start"}
\* the user's own attendee on the existing event, as an index or 0
ownOnEvent ==
    IF \E i \in 1..Len(existingEvent.attendees) : existingEvent.attendees[i].address \in Range(mailAddresses)
    THEN CHOOSE i \in 1..Len(existingEvent.attendees) :
            /\ existingEvent.attendees[i].address \in Range(mailAddresses)
            /\ \A k \in 1..(i - 1) : existingEvent.attendees[k].address \notin Range(mailAddresses)
    ELSE 0
\* the status the user has chosen for the own attendee of the existing event
hasChosenStatus == existingEvent.attendees[ownOnEvent].address \in DOMAIN guestStatuses
chosenStatus == guestStatuses[existingEvent.attendees[ownOnEvent].address]

C35_NoAddedStatusPersisted ==
    \A j \in persistStarts :
        \A i \in 1..Len(log[j].event.attendees) : log[j].event.attendees[i].status /= ADDED

minutesOf(time) == parseTime(time)[1].hours * 60 + parseTime(time)[1].minutes

\* C36: when start and end are on the same date, the times are valid and the
\* end time is after the start time so far, onStartTimeSelected with a valid
\* time leaves an end time that is a valid time of day and is after the new
\* start time, and that is as long after it as before whenever that still
\* is a time of the same day.
C36_EndFollowsStart ==
    [][(/\ ops' = ops + 1
        /\ lastOp' = "onStartTimeSelected"
        /\ startDate = endDate
        /\ parseTime(startTime) /= <<>> /\ parseTime(endTime) /= <<>> /\ parseTime(startTime') /= <<>>
        /\ minutesOf(endTime) > minutesOf(startTime))
          => /\ parseTime(endTime') /= <<>>
             /\ minutesOf(endTime') > minutesOf(startTime')
             /\ minutesOf(startTime') + (minutesOf(endTime) - minutesOf(startTime)) < DAY
                   => minutesOf(endTime') - minutesOf(startTime') = minutesOf(endTime) - minutesOf(startTime)]_vars

\* C37: the popup of an existing event and its mobile dialog do not offer the
\* delete action when isReadOnlyEvent() holds, that is for a shared-read-only
\* event and for a shared-read-write event with attendees.
C37_DeleteOnlyWhenWritable ==
    (existingEvent.exists /\ isReadOnlyEvent) => ~deleteOffered

\* C38: showAddDomainWizard opened with an empty domain stays on the first
\* page; opened with a non-empty domain it moves two pages on without
\* running their actions, runs the next action of the add-email-addresses
\* page, and moves one page further, to the DNS-record verification, exactly
\* when that action reported ready; it never moves more than three pages.
C38_WizardSkipsAssignedDomain ==
    wizard.pc /= "new" =>
        /\ wizard.advances <= 3
        /\ ~wizard.closed
        /\ Len(wizard.domain) = 0 =>
              wizard.currentPage = 1 /\ wizard.advances = 0 /\ wizard.actionsRun = <<>>
        /\ Len(wizard.domain) > 0 =>
              /\ wizard.pc \in {"nextAction", "settled", "rejected"}
              /\ wizard.actionsRun = <<3>>
              /\ wizardPages[3] = "AddEmailAddressesPage"
              /\ wizard.pc \in {"nextAction", "rejected"} =>
                    wizard.currentPage = 3 /\ wizard.advances = 2
              /\ wizard.pc = "settled" =>
                    IF wizard.ready = <<TRUE>>
                    THEN wizard.advances = 3 /\ wizardPages[wizard.currentPage] = "VerifyDnsRecordsPage"
                    ELSE wizard.advances = 2 /\ wizard.currentPage = 3
C38_Witness ==
    /\ Len(wizard.domain) > 0
    /\ wizard.pc = "settled"
    /\ wizard.ready = <<TRUE>>
    /\ wizard.currentPage = 4
====
